---- MODULE Spec2Model ----
(***************************************************************************)
(* FingerPain: keystroke counter, minute aggregator and session/WPM        *)
(* tracker, modelled from crates/fingerpain-listener and                   *)
(* crates/fingerpain-core.                                                 *)
(***************************************************************************)
EXTENDS Integers, Sequences, FiniteSets, TLC

VARIABLES
    counter,    \* a stand-alone KeystrokeCounter
    clog,       \* calls made on it: <<[ev, st]>>, st the counter after the call
    agg,        \* a KeystrokeAggregator: [current_minute, records, counter]
    ret,        \* the Vec returned by the aggregator's last call, as a map key -> record
    acall,      \* the aggregator's last call: [op, ev]
    obs,        \* what an observer of the aggregator's inputs has seen so far
    now,        \* the last reading of Utc::now(), in ticks
    tracker,    \* a SessionTracker: [idle_timeout, current_session]
    db,         \* the sessions table: row i has id i
    scall,      \* the tracker's last call and what it handed to the database
    listener,   \* a Listener: [running, stop_tx]
    hooks,      \* the hook threads it has spawned: <<[state, chan, delivered, dropped]>>
    chans,      \* the stop channels created: <<[sent, rx_alive]>>
    lcall,      \* the listener's last call: [n, op, result]
    keystrokes, \* the keystrokes table, rows in insertion order
    ulog,       \* the records handed to upsert_keystroke: <<[record, ok]>>
    daemon,     \* the daemon process: [pc, tracker], tracker a KeystrokeTracker
    denv,       \* the daemon's clock: [now], whole seconds
    dobs,       \* what an observer of the daemon's keys has seen so far
    threads,    \* threads calling the SessionTracker: [of, begun, ticks]
    lock,       \* the holder of the tracker's Mutex (None: free)
    hist        \* the tracker's calls in the order they took the lock

counterVars == <<counter, clog>>
aggVars == <<agg, ret, acall, obs>>
sessVars == <<now, tracker, db, scall>>
listenerVars == <<listener, hooks, chans, lcall>>
storeVars == <<keystrokes, ulog>>
daemonVars == <<daemon, denv, dobs>>
concVars == <<threads, lock, hist>>
extVars == <<listenerVars, storeVars, daemonVars, concVars>>

vars == <<counterVars, aggVars, sessVars, extVars>>

\* Option<T>: None, or Some(x).
None == <<>>
Some(x) == <<x>>
IsSome(o) == o # None
Unwrap(o) == o[1]

(***************************************************************************)
(* Bounds of the model.                                                    *)
(***************************************************************************)
MaxCounterCalls == 5
MaxAggCalls == 4
MaxSessionCalls == 4
MaxListenerCalls == 4
MaxHookEvents == 1
MaxUpserts == 3
MaxDaemonKeys == 3
MaxConcCalls == 3
MaxConcTicks == 1
\* The clock's resolution: ticks in a second (chrono keeps nanoseconds).
TicksPerSec == 2

(***************************************************************************)
(* KeyEventType and KeystrokeCounter (counter.rs).                         *)
(***************************************************************************)
KeyEventType == {"Character", "Space", "Enter", "Backspace", "Tab", "Other"}

is_word_boundary(t) == t \in {"Space", "Enter", "Tab"}

CounterNew ==
    [pending_chars |-> 0, total_chars |-> 0, total_words |-> 0,
     total_paragraphs |-> 0, total_backspaces |-> 0]

\* A boundary key that counts a word whether or not characters are pending.
CounterProcessWordPerBoundary(c, ev) ==
    CASE ev = "Character" ->
            [c EXCEPT !.pending_chars = @ + 1, !.total_chars = @ + 1]
      [] ev \in {"Space", "Tab"} ->
            [c EXCEPT !.total_chars = @ + 1, !.total_words = @ + 1,
                      !.pending_chars = 0]
      [] ev = "Enter" ->
            [c EXCEPT !.total_chars = @ + 1, !.total_paragraphs = @ + 1,
                      !.total_words = @ + 1, !.pending_chars = 0]
      [] ev = "Backspace" ->
            IF c.pending_chars > 0
            THEN [c EXCEPT !.total_backspaces = @ + 1, !.pending_chars = @ - 1]
            ELSE [c EXCEPT !.total_backspaces = @ + 1]
      [] OTHER -> c

\* A Backspace that takes a pending character without looking whether there
\* is one.
CounterProcessBackspaceUnguarded(c, ev) ==
    CASE ev = "Character" ->
            [c EXCEPT !.pending_chars = @ + 1, !.total_chars = @ + 1]
      [] ev \in {"Space", "Tab"} ->
            IF c.pending_chars > 0
            THEN [c EXCEPT !.total_chars = @ + 1, !.total_words = @ + 1,
                           !.pending_chars = 0]
            ELSE [c EXCEPT !.total_chars = @ + 1]
      [] ev = "Enter" ->
            IF c.pending_chars > 0
            THEN [c EXCEPT !.total_chars = @ + 1, !.total_paragraphs = @ + 1,
                           !.total_words = @ + 1, !.pending_chars = 0]
            ELSE [c EXCEPT !.total_chars = @ + 1, !.total_paragraphs = @ + 1]
      [] ev = "Backspace" ->
            [c EXCEPT !.total_backspaces = @ + 1, !.pending_chars = @ - 1]
      [] OTHER -> c

\* An Enter that breaks the paragraph but leaves the pending word open.
CounterProcessEnterKeepsWord(c, ev) ==
    CASE ev = "Character" ->
            [c EXCEPT !.pending_chars = @ + 1, !.total_chars = @ + 1]
      [] ev \in {"Space", "Tab"} ->
            IF c.pending_chars > 0
            THEN [c EXCEPT !.total_chars = @ + 1, !.total_words = @ + 1,
                           !.pending_chars = 0]
            ELSE [c EXCEPT !.total_chars = @ + 1]
      [] ev = "Enter" ->
            [c EXCEPT !.total_chars = @ + 1, !.total_paragraphs = @ + 1]
      [] ev = "Backspace" ->
            IF c.pending_chars > 0
            THEN [c EXCEPT !.total_backspaces = @ + 1, !.pending_chars = @ - 1]
            ELSE [c EXCEPT !.total_backspaces = @ + 1]
      [] OTHER -> c

CounterProcess(c, ev) ==
    CASE ev = "Character" ->
            [c EXCEPT !.pending_chars = @ + 1, !.total_chars = @ + 1]
      [] ev \in {"Space", "Tab"} ->
            IF c.pending_chars > 0
            THEN [c EXCEPT !.total_chars = @ + 1, !.total_words = @ + 1,
                           !.pending_chars = 0]
            ELSE [c EXCEPT !.total_chars = @ + 1]
      [] ev = "Enter" ->
            IF c.pending_chars > 0
            THEN [c EXCEPT !.total_chars = @ + 1, !.total_paragraphs = @ + 1,
                           !.total_words = @ + 1, !.pending_chars = 0]
            ELSE [c EXCEPT !.total_chars = @ + 1, !.total_paragraphs = @ + 1]
      [] ev = "Backspace" ->
            IF c.pending_chars > 0
            THEN [c EXCEPT !.total_backspaces = @ + 1, !.pending_chars = @ - 1]
            ELSE [c EXCEPT !.total_backspaces = @ + 1]
      [] OTHER -> c

CounterReset(c) == CounterNew

CounterStats(c) ==
    <<c.total_chars, c.total_words, c.total_paragraphs, c.total_backspaces>>

(***************************************************************************)
(* The stand-alone counter: process and reset, every call logged.          *)
(***************************************************************************)
CounterInit ==
    /\ counter = CounterNew
    /\ clog = <<>>

CounterProcessCall ==
    /\ Len(clog) < MaxCounterCalls
    /\ \E ev \in KeyEventType :
          /\ counter' = CounterProcess(counter, ev)
          /\ clog' = Append(clog, [ev |-> ev, st |-> CounterProcess(counter, ev)])
    /\ UNCHANGED <<aggVars, sessVars, extVars>>

CounterResetCall ==
    /\ Len(clog) < MaxCounterCalls
    /\ counter' = CounterReset(counter)
    /\ clog' = Append(clog, [ev |-> "Reset", st |-> CounterReset(counter)])
    /\ UNCHANGED <<aggVars, sessVars, extVars>>

\* The counter after the first i logged calls.
CState(i) == IF i = 0 THEN CounterNew ELSE clog[i].st

(***************************************************************************)
(* KeyEvent, ActiveApp, KeystrokeRecord (listener lib.rs, core lib.rs).    *)
(***************************************************************************)
\* get_active_app() results attached to an event: no application, or one of two.
ActiveApps ==
    {[name |-> "Alpha", bundle_id |-> "com.alpha"],
     [name |-> "Beta", bundle_id |-> "com.beta"]}

EventApps == {None} \cup {Some(a) : a \in ActiveApps}

\* event.timestamp.timestamp(), whole seconds since the epoch: the last second
\* of the epoch's first three minutes.
EventTimestamps == {59, 119, 179}

\* The kinds of key the aggregator is fed (Tab takes Space's match arms, and
\* the listener drops Other before it builds an event).
AggEventTypes == {"Character", "Space", "Enter", "Backspace"}

KeyEvents ==
    [timestamp : EventTimestamps, event_type : AggEventTypes, app : EventApps]

\* Rust's i64 division truncates toward zero.
MinuteOf(ts) == IF ts >= 0 THEN ts \div 60 ELSE -((-ts) \div 60)

KeystrokeRecordNew(ts) ==
    [id |-> None, timestamp |-> ts, app_name |-> None, app_bundle_id |-> None,
     char_count |-> 0, word_count |-> 0, paragraph_count |-> 0,
     backspace_count |-> 0, browser_domain |-> None, browser_url |-> None]

\* The record key: the bundle id, or "unknown" without an application.
AppKey(app) == IF app = None THEN "unknown" ELSE Unwrap(app).bundle_id

EmptyMap == [k \in {} |-> None]

(***************************************************************************)
(* KeystrokeAggregator (listener lib.rs).                                  *)
(***************************************************************************)
AggNew == [current_minute |-> 0, records |-> EmptyMap, counter |-> CounterNew]

\* or_insert_with: the record created for an application's first event.
AggCreateRecord(event) ==
    IF event.app = None
    THEN KeystrokeRecordNew(event.timestamp)
    ELSE [KeystrokeRecordNew(event.timestamp) EXCEPT
             !.app_name = Some(Unwrap(event.app).name),
             !.app_bundle_id = Some(Unwrap(event.app).bundle_id)]

\* "Update counts": the match on event_type.
AggUpdateCounts(r, et) ==
    CASE et \in {"Character", "Space", "Tab"} -> [r EXCEPT !.char_count = @ + 1]
      [] et = "Enter" ->
            [r EXCEPT !.char_count = @ + 1, !.paragraph_count = @ + 1]
      [] et = "Backspace" -> [r EXCEPT !.backspace_count = @ + 1]
      [] OTHER -> r

\* "Check for word completion", on the counter as process has left it.
AggWordCompletion(r, et, cnt) ==
    IF is_word_boundary(et) /\ cnt.pending_chars > 0
    THEN [r EXCEPT !.word_count = @ + 1]
    ELSE r

\* A rollover test without the "no bucket yet" sentinel.
AggRolloverNoSentinel(a, minute) == minute # a.current_minute

AggRollover(a, minute) == minute # a.current_minute /\ a.current_minute # 0

\* A rollover that hands over only the record of the event's application.
AggProcessDrainOwn(a, event) ==
    LET minute == MinuteOf(event.timestamp)
        roll == AggRollover(a, minute)
        app_id == AppKey(event.app)
        completed == IF roll
                     THEN [k \in DOMAIN a.records \cap {app_id} |-> a.records[k]]
                     ELSE EmptyMap
        records1 == IF roll THEN EmptyMap ELSE a.records
        counter1 == IF roll THEN CounterReset(a.counter) ELSE a.counter
        counter2 == CounterProcess(counter1, event.event_type)
        rec0 == IF app_id \in DOMAIN records1
                THEN records1[app_id]
                ELSE AggCreateRecord(event)
        rec1 == AggUpdateCounts(rec0, event.event_type)
        rec2 == AggWordCompletion(rec1, event.event_type, counter2)
    IN  [agg |-> [current_minute |-> minute,
                  records |-> (app_id :> rec2) @@ records1,
                  counter |-> counter2],
         completed |-> completed]

\* process: the new aggregator and the returned Vec.
AggProcess(a, event) ==
    LET minute == MinuteOf(event.timestamp)
        roll == AggRollover(a, minute)
        completed == IF roll THEN a.records ELSE EmptyMap
        records1 == IF roll THEN EmptyMap ELSE a.records
        counter1 == IF roll THEN CounterReset(a.counter) ELSE a.counter
        counter2 == CounterProcess(counter1, event.event_type)
        app_id == AppKey(event.app)
        rec0 == IF app_id \in DOMAIN records1
                THEN records1[app_id]
                ELSE AggCreateRecord(event)
        rec1 == AggUpdateCounts(rec0, event.event_type)
        rec2 == AggWordCompletion(rec1, event.event_type, counter2)
    IN  [agg |-> [current_minute |-> minute,
                  records |-> (app_id :> rec2) @@ records1,
                  counter |-> counter2],
         completed |-> completed]

\* A flush that returns the records but leaves them in flight.
AggFlushKeep(a) ==
    [agg |-> [a EXCEPT !.counter = CounterReset(a.counter)],
     completed |-> a.records]

\* flush: the counter reset, all records drained; current_minute is kept.
AggFlush(a) ==
    [agg |-> [a EXCEPT !.counter = CounterReset(a.counter), !.records = EmptyMap],
     completed |-> a.records]

(***************************************************************************)
(* An observer of the aggregator's inputs: the calls made, the minutes and *)
(* applications of the events, reference KeystrokeCounters fed with the    *)
(* same events (one with all of them, one per application key), the events *)
(* processed by kind and the counts of all records returned so far.        *)
(***************************************************************************)
NoCounts == [chars |-> 0, paragraphs |-> 0, backspaces |-> 0]

AddCounts(x, y) ==
    [chars |-> x.chars + y.chars, paragraphs |-> x.paragraphs + y.paragraphs,
     backspaces |-> x.backspaces + y.backspaces]

\* One event, by kind: a character (Character, Space, Tab, Enter), a
\* paragraph (Enter), a backspace.
EventTally(et) ==
    [chars |-> IF et \in {"Character", "Space", "Tab", "Enter"} THEN 1 ELSE 0,
     paragraphs |-> IF et = "Enter" THEN 1 ELSE 0,
     backspaces |-> IF et = "Backspace" THEN 1 ELSE 0]

\* The counts of the records of a map, summed.
RECURSIVE RecordTotals(_)
RecordTotals(m) ==
    IF DOMAIN m = {}
    THEN NoCounts
    ELSE LET k == CHOOSE x \in DOMAIN m : TRUE
         IN  AddCounts([chars |-> m[k].char_count,
                        paragraphs |-> m[k].paragraph_count,
                        backspaces |-> m[k].backspace_count],
                       RecordTotals([y \in DOMAIN m \ {k} |-> m[y]]))

ObsNew ==
    [calls |-> 0, flushes |-> 0, last_ts |-> 0, minutes |-> {}, apps |-> {},
     nonempty |-> FALSE, ref |-> CounterNew, per |-> EmptyMap,
     events |-> NoCounts, returned |-> NoCounts]

ObsEvent(o, event, completed) ==
    LET k == AppKey(event.app)
        c == IF k \in DOMAIN o.per THEN o.per[k] ELSE CounterNew
    IN  [o EXCEPT !.calls = @ + 1,
                  !.last_ts = event.timestamp,
                  !.minutes = @ \cup {MinuteOf(event.timestamp)},
                  !.apps = @ \cup {k},
                  !.nonempty = @ \/ (DOMAIN completed # {}),
                  !.events = AddCounts(@, EventTally(event.event_type)),
                  !.returned = AddCounts(@, RecordTotals(completed)),
                  !.ref = CounterProcess(@, event.event_type),
                  !.per = (k :> CounterProcess(c, event.event_type)) @@ @]

ObsFlush(o, completed) ==
    [o EXCEPT !.calls = @ + 1, !.flushes = @ + 1,
              !.returned = AddCounts(@, RecordTotals(completed)),
              !.nonempty = @ \/ (DOMAIN completed # {})]

AggInit ==
    /\ agg = AggNew
    /\ ret = EmptyMap
    /\ acall = [op |-> "new", ev |-> None]
    /\ obs = ObsNew

AggProcessCall ==
    /\ obs.calls < MaxAggCalls
    /\ \E event \in KeyEvents :
          LET out == AggProcess(agg, event)
          IN  /\ event.timestamp >= obs.last_ts    \* Utc::now() of run_listener
              /\ agg' = out.agg
              /\ ret' = out.completed
              /\ acall' = [op |-> "process", ev |-> event]
              /\ obs' = ObsEvent(obs, event, out.completed)
    /\ UNCHANGED <<counterVars, sessVars, extVars>>

AggFlushCall ==
    /\ obs.calls < MaxAggCalls
    /\ LET out == AggFlush(agg)
       IN  /\ agg' = out.agg
           /\ ret' = out.completed
           /\ acall' = [op |-> "flush", ev |-> None]
           /\ obs' = ObsFlush(obs, out.completed)
    /\ UNCHANGED <<counterVars, sessVars, extVars>>

(***************************************************************************)
(* Time and WPM values (core session.rs).  A DateTime is a number of       *)
(* ticks; an f64 WPM is the exact fraction <<numerator, denominator>> in   *)
(* lowest terms.                                                           *)
(***************************************************************************)
\* Duration::num_seconds(): whole seconds, truncated toward zero.
NumSeconds(d) == IF d >= 0 THEN d \div TicksPerSec ELSE -((-d) \div TicksPerSec)

\* DateTime::timestamp(): whole seconds since the epoch.
Timestamp(t) == t \div TicksPerSec

Seconds(n) == n * TicksPerSec

RECURSIVE Gcd(_, _)
Gcd(a, b) == IF b = 0 THEN a ELSE Gcd(b, a % b)

Zero == <<0, 1>>

\* n / d for n >= 0, d > 0.
Ratio(n, d) == <<n \div Gcd(n, d), d \div Gcd(n, d)>>

Greater(x, y) == x[1] * y[2] > y[1] * x[2]

\* The idle timeouts a tracker is built with: the default of new(), and two
\* values given to with_idle_timeout().
IdleTimeoutSecs == {5, 12, 60}

\* The rolling window's length in seconds.
WindowSecs == 60

\* (char_count, word_count) arguments of record_keystroke.
KeystrokeArgs == {<<1, 0>>, <<4, 1>>}

\* Time that passes before a call reads the clock: none, one tick, exactly
\* the idle timeout, one tick more.
Elapsed == {0, 1} \cup {tracker.idle_timeout, tracker.idle_timeout + 1}

(***************************************************************************)
(* TypingSession (core lib.rs) and the sessions table (core db.rs).        *)
(***************************************************************************)
TypingSessionNew(start_time) ==
    [id |-> None, start_time |-> start_time, end_time |-> None,
     char_count |-> 0, word_count |-> 0, wpm_avg |-> None, wpm_peak |-> None]

\* The columns both statements write, as they bind them.
SessionColumns(s) ==
    [end_time |-> IF s.end_time = None THEN None
                  ELSE Some(Timestamp(Unwrap(s.end_time))),
     char_count |-> s.char_count, word_count |-> s.word_count,
     wpm_avg |-> s.wpm_avg, wpm_peak |-> s.wpm_peak]

\* insert_session: a new row; its rowid is the id returned.
DbInsertSession(rows, s) ==
    LET c == SessionColumns(s)
    IN  Append(rows, [start_time |-> Timestamp(s.start_time),
                      end_time |-> c.end_time, char_count |-> c.char_count,
                      word_count |-> c.word_count, wpm_avg |-> c.wpm_avg,
                      wpm_peak |-> c.wpm_peak])

\* update_session: UPDATE ... WHERE id = session.id.
DbUpdateSession(rows, s) ==
    LET c == SessionColumns(s)
    IN  [i \in 1..Len(rows) |->
            IF i = Unwrap(s.id)
            THEN [rows[i] EXCEPT !.end_time = c.end_time,
                                 !.char_count = c.char_count,
                                 !.word_count = c.word_count,
                                 !.wpm_avg = c.wpm_avg,
                                 !.wpm_peak = c.wpm_peak]
            ELSE rows[i]]

(***************************************************************************)
(* ActiveSession (core session.rs).                                        *)
(***************************************************************************)
RECURSIVE SumChars(_)
SumChars(kt) == IF kt = <<>> THEN 0 ELSE kt[1][2] + SumChars(Tail(kt))

calculate_current_wpm(a) ==
    IF Len(a.keystroke_times) < 2
    THEN Zero
    ELSE LET total_chars == SumChars(a.keystroke_times)
             first_time == a.keystroke_times[1][1]
             last_time == a.keystroke_times[Len(a.keystroke_times)][1]
             duration_secs == NumSeconds(last_time - first_time)
         IN  IF duration_secs <= 0
             THEN Zero
             ELSE Ratio(total_chars * 60, 5 * duration_secs)

calculate_avg_wpm(a) ==
    LET duration_secs == NumSeconds(a.last_keystroke - a.session.start_time)
    IN  IF duration_secs <= 0
        THEN Zero
        ELSE Ratio(a.session.char_count * 60, 5 * duration_secs)

\* The session an idle close hands to update_session (record_keystroke and
\* check_idle build it alike).
IdleClosed(a) ==
    [a.session EXCEPT !.end_time = Some(a.last_keystroke),
                      !.wpm_avg = Some(calculate_avg_wpm(a)),
                      !.wpm_peak = Some(a.peak_wpm)]

\* A retain that keeps the entry exactly at the cutoff.
RetainInclusive(kt, cutoff) == SelectSeq(kt, LAMBDA e : e[1] >= cutoff)

\* keystroke_times.retain(|(t, _)| *t > cutoff)
Retain(kt, cutoff) == SelectSeq(kt, LAMBDA e : e[1] > cutoff)

(***************************************************************************)
(* SessionTracker (core session.rs).  Each operation gives the tracker's   *)
(* and the table's next value, the Result, and the sessions it handed to   *)
(* insert_session and update_session.  upd_ok and ins_ok say whether those *)
(* database calls succeed.                                                 *)
(***************************************************************************)
TrackerNew(idle_timeout) == [idle_timeout |-> idle_timeout, current_session |-> None]

Outcome(tr, rows, result, ins, upd) ==
    [tracker |-> tr, db |-> rows, result |-> result, ins |-> ins, upd |-> upd]

\* A new session whose rolling window starts empty.
start_new_session_unseeded(rows, t, char_count, word_count) ==
    LET session == [TypingSessionNew(t) EXCEPT !.char_count = char_count,
                                               !.word_count = word_count]
        id == Len(rows) + 1
    IN  [session |-> [session EXCEPT !.id = Some(id)],
         last_keystroke |-> t,
         keystroke_times |-> <<>>,
         current_wpm |-> Zero,
         peak_wpm |-> Zero]

\* start_new_session, once insert_session has returned the id.
start_new_session(rows, t, char_count, word_count) ==
    LET session == [TypingSessionNew(t) EXCEPT !.char_count = char_count,
                                               !.word_count = word_count]
        id == Len(rows) + 1
    IN  [session |-> [session EXCEPT !.id = Some(id)],
         last_keystroke |-> t,
         keystroke_times |-> <<<<t, char_count>>>>,
         current_wpm |-> Zero,
         peak_wpm |-> Zero]

\* What start_new_session hands to insert_session.
NewSessionRow(t, char_count, word_count) ==
    [TypingSessionNew(t) EXCEPT !.char_count = char_count, !.word_count = word_count]

\* An update that counts the keystroke's characters but not its words.
UpdateActiveCharsOnly(a, t, char_count, word_count) ==
    LET a1 == [a EXCEPT !.session.char_count = @ + char_count,
                        !.last_keystroke = t,
                        !.keystroke_times =
                            Retain(Append(@, <<t, char_count>>), t - Seconds(WindowSecs))]
        wpm == calculate_current_wpm(a1)
    IN  [a1 EXCEPT !.current_wpm = wpm,
                   !.peak_wpm = IF Greater(wpm, @) THEN wpm ELSE @]

\* The "Update current session" branch of record_keystroke.
UpdateActive(a, t, char_count, word_count) ==
    LET a1 == [a EXCEPT !.session.char_count = @ + char_count,
                        !.session.word_count = @ + word_count,
                        !.last_keystroke = t,
                        !.keystroke_times =
                            Retain(Append(@, <<t, char_count>>), t - Seconds(WindowSecs))]
        wpm == calculate_current_wpm(a1)
    IN  [a1 EXCEPT !.current_wpm = wpm,
                   !.peak_wpm = IF Greater(wpm, @) THEN wpm ELSE @]

\* An idle restart that adds the keystroke to the session it closes.
record_keystroke_counts_late(tr, rows, t, char_count, word_count, upd_ok, ins_ok) ==
    IF tr.current_session = None
    THEN Outcome([tr EXCEPT !.current_session =
                      Some(start_new_session(rows, t, char_count, word_count))],
                 DbInsertSession(rows, NewSessionRow(t, char_count, word_count)),
                 "Ok", Some(NewSessionRow(t, char_count, word_count)), None)
    ELSE LET a == Unwrap(tr.current_session)
         IN  IF t - a.last_keystroke > tr.idle_timeout
             THEN LET late == [a EXCEPT !.session.char_count = @ + char_count,
                                        !.session.word_count = @ + word_count]
                      rows1 == DbUpdateSession(rows, IdleClosed(late))
                  IN  Outcome([tr EXCEPT !.current_session =
                                   Some(start_new_session(rows1, t, char_count, word_count))],
                              DbInsertSession(rows1, NewSessionRow(t, char_count, word_count)),
                              "Ok", Some(NewSessionRow(t, char_count, word_count)),
                              Some(IdleClosed(late)))
             ELSE Outcome([tr EXCEPT !.current_session =
                               Some(UpdateActive(a, t, char_count, word_count))],
                          rows, "Ok", None, None)

record_keystroke(tr, rows, t, char_count, word_count, upd_ok, ins_ok) ==
    IF tr.current_session = None
    THEN \* "Start new session"
         IF ins_ok
         THEN Outcome([tr EXCEPT !.current_session =
                           Some(start_new_session(rows, t, char_count, word_count))],
                      DbInsertSession(rows, NewSessionRow(t, char_count, word_count)),
                      "Ok", Some(NewSessionRow(t, char_count, word_count)), None)
         ELSE Outcome(tr, rows, "Err", None, None)
    ELSE LET a == Unwrap(tr.current_session)
         IN  IF t - a.last_keystroke > tr.idle_timeout
             THEN \* "End current session", then "Start new session"
                  IF ~upd_ok
                  THEN Outcome(tr, rows, "Err", None, None)
                  ELSE LET rows1 == DbUpdateSession(rows, IdleClosed(a))
                       IN  IF ins_ok
                           THEN Outcome(
                                  [tr EXCEPT !.current_session =
                                      Some(start_new_session(rows1, t, char_count, word_count))],
                                  DbInsertSession(rows1,
                                      NewSessionRow(t, char_count, word_count)),
                                  "Ok", Some(NewSessionRow(t, char_count, word_count)),
                                  Some(IdleClosed(a)))
                           ELSE Outcome(tr, rows1, "Err", None, Some(IdleClosed(a)))
             ELSE \* "Update current session"
                  Outcome([tr EXCEPT !.current_session =
                               Some(UpdateActive(a, t, char_count, word_count))],
                          rows, "Ok", None, None)

\* An idle check that already closes at a gap equal to the timeout.
check_idle_at_timeout(tr, rows, t, upd_ok) ==
    IF tr.current_session = None
    THEN Outcome(tr, rows, "Ok", None, None)
    ELSE LET a == Unwrap(tr.current_session)
         IN  IF t - a.last_keystroke >= tr.idle_timeout
             THEN Outcome([tr EXCEPT !.current_session = None],
                          DbUpdateSession(rows, IdleClosed(a)), "Ok", None,
                          Some(IdleClosed(a)))
             ELSE Outcome(tr, rows, "Ok", None, None)

check_idle(tr, rows, t, upd_ok) ==
    IF tr.current_session = None
    THEN Outcome(tr, rows, "Ok", None, None)
    ELSE LET a == Unwrap(tr.current_session)
         IN  IF t - a.last_keystroke > tr.idle_timeout
             THEN IF upd_ok
                  THEN Outcome([tr EXCEPT !.current_session = None],
                               DbUpdateSession(rows, IdleClosed(a)), "Ok", None,
                               Some(IdleClosed(a)))
                  ELSE Outcome(tr, rows, "Err", None, None)
             ELSE Outcome(tr, rows, "Ok", None, None)

\* The session end_session hands to update_session.
ForceClosed(a, t) ==
    [a.session EXCEPT !.end_time = Some(t),
                      !.wpm_avg = Some(calculate_avg_wpm(a)),
                      !.wpm_peak = Some(a.peak_wpm)]

\* An end_session that stamps the last keystroke's time, as the idle closes do.
end_session_at_last_keystroke(tr, rows, t, upd_ok) ==
    IF tr.current_session = None
    THEN Outcome(tr, rows, "Ok", None, None)
    ELSE LET a == Unwrap(tr.current_session)
         IN  Outcome([tr EXCEPT !.current_session = None],
                     DbUpdateSession(rows, IdleClosed(a)), "Ok", None,
                     Some(IdleClosed(a)))

\* end_session: take() empties the tracker before update_session is called.
end_session(tr, rows, t, upd_ok) ==
    IF tr.current_session = None
    THEN Outcome(tr, rows, "Ok", None, None)
    ELSE LET a == Unwrap(tr.current_session)
         IN  IF upd_ok
             THEN Outcome([tr EXCEPT !.current_session = None],
                          DbUpdateSession(rows, ForceClosed(a, t)), "Ok", None,
                          Some(ForceClosed(a, t)))
             ELSE Outcome([tr EXCEPT !.current_session = None], rows, "Err", None, None)

current_wpm(tr) ==
    IF tr.current_session = None THEN Zero ELSE Unwrap(tr.current_session).current_wpm

peak_wpm(tr) ==
    IF tr.current_session = None THEN Zero ELSE Unwrap(tr.current_session).peak_wpm

(***************************************************************************)
(* Calls on the tracker.  Each reads the clock, which has advanced by d.   *)
(***************************************************************************)
\* (characters of the window / 5) / (its span in minutes), the span taken
\* to the tick; 0 for fewer than two entries or no span.
WindowWpm(kt) ==
    IF Len(kt) < 2 \/ kt[Len(kt)][1] - kt[1][1] <= 0
    THEN Zero
    ELSE Ratio(SumChars(kt) * 60 * TicksPerSec, 5 * (kt[Len(kt)][1] - kt[1][1]))

\* An account of the open session kept beside the tracker: the characters
\* and words of the keystrokes recorded since, and including, the one that
\* opened it, the highest current_wpm it has shown after a call, and the
\* highest WindowWpm its window has had after a call.
SinceNone == [chars |-> 0, words |-> 0, top |-> Zero, exact |-> Zero]

SinceOpen(prev, op, args, out) ==
    IF out.tracker.current_session = None
    THEN SinceNone
    ELSE IF op = "record_keystroke" /\ out.result = "Ok"
         THEN LET cur == Unwrap(out.tracker.current_session).current_wpm
                  wpm ==
                      WindowWpm(Unwrap(out.tracker.current_session).keystroke_times)
              IN  IF out.ins # None
                  THEN [chars |-> args[1], words |-> args[2], top |-> cur,
                        exact |-> wpm]
                  ELSE [chars |-> prev.chars + args[1],
                        words |-> prev.words + args[2],
                        top |-> IF Greater(cur, prev.top) THEN cur ELSE prev.top,
                        exact |-> IF Greater(wpm, prev.exact) THEN wpm
                                  ELSE prev.exact]
         ELSE prev

SessionInit ==
    /\ now = 0
    /\ \E secs \in IdleTimeoutSecs : tracker = TrackerNew(Seconds(secs))
    /\ db = <<>>
    /\ scall = [n |-> 0, op |-> "new", args |-> <<>>, result |-> "Ok",
                ins |-> None, upd |-> None, value |-> Zero, since |-> SinceNone]

Returned(op, args, out) ==
    [n |-> scall.n + 1, op |-> op, args |-> args, result |-> out.result,
     ins |-> out.ins, upd |-> out.upd, value |-> Zero,
     since |-> SinceOpen(scall.since, op, args, out)]

RecordKeystrokeCall(d, char_count, word_count, upd_ok, ins_ok) ==
    /\ scall.n < MaxSessionCalls
    /\ now' = now + d
    /\ LET out == record_keystroke(tracker, db, now + d, char_count, word_count,
                                   upd_ok, ins_ok)
       IN  /\ tracker' = out.tracker
           /\ db' = out.db
           /\ scall' = Returned("record_keystroke", <<char_count, word_count>>, out)
    /\ UNCHANGED <<counterVars, aggVars, extVars>>

CheckIdleCall(d, upd_ok) ==
    /\ scall.n < MaxSessionCalls
    /\ now' = now + d
    /\ LET out == check_idle(tracker, db, now + d, upd_ok)
       IN  /\ tracker' = out.tracker
           /\ db' = out.db
           /\ scall' = Returned("check_idle", <<>>, out)
    /\ UNCHANGED <<counterVars, aggVars, extVars>>

EndSessionCall(d, upd_ok) ==
    /\ scall.n < MaxSessionCalls
    /\ now' = now + d
    /\ LET out == end_session(tracker, db, now + d, upd_ok)
       IN  /\ tracker' = out.tracker
           /\ db' = out.db
           /\ scall' = Returned("end_session", <<>>, out)
    /\ UNCHANGED <<counterVars, aggVars, extVars>>

CurrentWpmCall ==
    /\ scall.n < MaxSessionCalls
    /\ scall' = [n |-> scall.n + 1, op |-> "current_wpm", args |-> <<>>,
                 result |-> "Ok", ins |-> None, upd |-> None,
                 value |-> current_wpm(tracker), since |-> scall.since]
    /\ UNCHANGED <<now, tracker, db, counterVars, aggVars, extVars>>

PeakWpmCall ==
    /\ scall.n < MaxSessionCalls
    /\ scall' = [n |-> scall.n + 1, op |-> "peak_wpm", args |-> <<>>,
                 result |-> "Ok", ins |-> None, upd |-> None,
                 value |-> peak_wpm(tracker), since |-> scall.since]
    /\ UNCHANGED <<now, tracker, db, counterVars, aggVars, extVars>>

(***************************************************************************)
(* Listener (listener lib.rs): start, the hook thread of run_listener,     *)
(* stop and Drop.  A hook thread is "spawned" until rdev::listen has       *)
(* installed the OS hook, "listening" while it blocks in it, and "exited"  *)
(* once listen has returned.                                               *)
(***************************************************************************)
ListenerNew == [running |-> FALSE, stop_tx |-> None]

is_running(l) == l.running

\* A start that does not look at the running flag.
start_unchecked(l, hs, cs) ==
    [listener |-> [running |-> TRUE, stop_tx |-> Some(Len(cs) + 1)],
     hooks |-> Append(hs, [state |-> "spawned", chan |-> Len(cs) + 1,
                           checked |-> FALSE, delivered |-> 0, dropped |-> 0]),
     chans |-> Append(cs, [sent |-> 0, rx_alive |-> TRUE]),
     result |-> "Ok"]

start(l, hs, cs) ==
    IF is_running(l)
    THEN [listener |-> l, hooks |-> hs, chans |-> cs, result |-> "AlreadyRunning"]
    ELSE [listener |-> [running |-> TRUE, stop_tx |-> Some(Len(cs) + 1)],
          hooks |-> Append(hs, [state |-> "spawned", chan |-> Len(cs) + 1,
                                checked |-> FALSE, delivered |-> 0, dropped |-> 0]),
          chans |-> Append(cs, [sent |-> 0, rx_alive |-> TRUE]),
          result |-> "Ok"]

\* tx.send(()): queued when the receiver lives, an Err (ignored) when not.
Send(cs, c) == IF cs[c].rx_alive THEN [cs EXCEPT ![c].sent = @ + 1] ELSE cs

\* A stop that joins the hook thread it started: it returns only once that
\* thread has exited.
stop_joining(l, hs, cs) ==
    [listener |-> [running |-> FALSE, stop_tx |-> None],
     chans |-> IF IsSome(l.stop_tx) THEN Send(cs, Unwrap(l.stop_tx)) ELSE cs,
     returns |-> \/ l.stop_tx = None
                 \/ \A i \in 1..Len(hs) :
                       hs[i].chan = Unwrap(l.stop_tx) => hs[i].state = "exited"]

stop(l, hs, cs) ==
    [listener |-> [running |-> FALSE, stop_tx |-> None],
     chans |-> IF IsSome(l.stop_tx) THEN Send(cs, Unwrap(l.stop_tx)) ELSE cs,
     returns |-> TRUE]

ListenerInit ==
    /\ listener = ListenerNew
    /\ hooks = <<>>
    /\ chans = <<>>
    /\ lcall = [n |-> 0, op |-> "new", result |-> "Ok"]

\* The Listener is still owned by its user.
ListenerLive == lcall.op # "drop" /\ lcall.n < MaxListenerCalls

ListenerStartCall ==
    /\ ListenerLive
    /\ LET out == start(listener, hooks, chans)
       IN  /\ listener' = out.listener
           /\ hooks' = out.hooks
           /\ chans' = out.chans
           /\ lcall' = [n |-> lcall.n + 1, op |-> "start", result |-> out.result]
    /\ UNCHANGED <<counterVars, aggVars, sessVars, storeVars, daemonVars, concVars>>

ListenerStopCall ==
    /\ ListenerLive
    /\ LET out == stop(listener, hooks, chans)
       IN  /\ out.returns
           /\ listener' = out.listener
           /\ chans' = out.chans
           /\ lcall' = [n |-> lcall.n + 1, op |-> "stop", result |-> "Returned"]
    /\ UNCHANGED <<hooks, counterVars, aggVars, sessVars, storeVars, daemonVars, concVars>>

\* Drop for Listener: stop(), after which the Listener is gone.
ListenerDrop ==
    /\ ListenerLive
    /\ LET out == stop(listener, hooks, chans)
       IN  /\ out.returns
           /\ listener' = out.listener
           /\ chans' = out.chans
           /\ lcall' = [n |-> lcall.n + 1, op |-> "drop", result |-> "Returned"]
    /\ UNCHANGED <<hooks, counterVars, aggVars, sessVars, storeVars, daemonVars, concVars>>

\* The spawned thread enters rdev::listen and the OS hook is installed.
HookInstall(i) ==
    /\ hooks[i].state = "spawned"
    /\ hooks' = [hooks EXCEPT ![i].state = "listening"]
    /\ UNCHANGED <<listener, chans, lcall, counterVars, aggVars, sessVars,
                   storeVars, daemonVars, concVars>>

\* The OS hands a typing key press to the closure of hook i: it locks the
\* running flag, reads it and unlocks; it returns at once when the flag is
\* false, and goes on to build the event otherwise.
HookKeyPress(i) ==
    /\ hooks[i].state = "listening"
    /\ ~hooks[i].checked
    /\ hooks[i].delivered + hooks[i].dropped < MaxHookEvents
    /\ hooks' = IF ~listener.running
                THEN [hooks EXCEPT ![i].dropped = @ + 1]
                ELSE [hooks EXCEPT ![i].checked = TRUE]
    /\ UNCHANGED <<listener, chans, lcall, counterVars, aggVars, sessVars,
                   storeVars, daemonVars, concVars>>

\* The closure of hook i, past its check, has asked for the active
\* application and built the KeyEvent: it calls the callback.
HookCallback(i) ==
    /\ hooks[i].checked
    /\ hooks' = [hooks EXCEPT ![i].checked = FALSE, ![i].delivered = @ + 1]
    /\ UNCHANGED <<listener, chans, lcall, counterVars, aggVars, sessVars,
                   storeVars, daemonVars, concVars>>

\* rdev::listen returns in thread i (it does so only on an error): the thread
\* clears the running flag and ends, dropping its end of the stop channel.
HookReturn(i) ==
    /\ hooks[i].state \in {"spawned", "listening"}
    /\ ~hooks[i].checked
    /\ hooks' = [hooks EXCEPT ![i].state = "exited"]
    /\ listener' = [listener EXCEPT !.running = FALSE]
    /\ chans' = [chans EXCEPT ![hooks[i].chan].rx_alive = FALSE]
    /\ UNCHANGED <<lcall, counterVars, aggVars, sessVars, storeVars, daemonVars,
                   concVars>>

(***************************************************************************)
(* The keystrokes table (core db.rs): UNIQUE(timestamp, app_bundle_id),    *)
(* and upsert_keystroke.  SQL NULLs are distinct from one another in a     *)
(* UNIQUE constraint, so a row with a NULL app_bundle_id conflicts with    *)
(* no row.                                                                 *)
(***************************************************************************)
KeystrokeColumns(mt, r) ==
    [timestamp |-> mt, app_name |-> r.app_name, app_bundle_id |-> r.app_bundle_id,
     char_count |-> r.char_count, word_count |-> r.word_count,
     paragraph_count |-> r.paragraph_count, backspace_count |-> r.backspace_count,
     browser_domain |-> r.browser_domain, browser_url |-> r.browser_url]

\* COALESCE(excluded, stored)
Coalesce(x, y) == IF x # None THEN x ELSE y

\* The rows the INSERT conflicts with on (timestamp, app_bundle_id).
Conflicting(rows, mt, r) ==
    {i \in 1..Len(rows) :
        /\ rows[i].timestamp = mt
        /\ r.app_bundle_id # None
        /\ rows[i].app_bundle_id = r.app_bundle_id}

\* ON CONFLICT ... DO UPDATE SET
MergeKeystroke(row, r) ==
    [row EXCEPT !.char_count = @ + r.char_count,
                !.word_count = @ + r.word_count,
                !.paragraph_count = @ + r.paragraph_count,
                !.backspace_count = @ + r.backspace_count,
                !.browser_domain = Coalesce(r.browser_domain, @),
                !.browser_url = Coalesce(r.browser_url, @)]

\* An upsert whose conflict target overwrites the stored counts.
upsert_keystroke_overwriting(rows, r) ==
    LET mt == MinuteOf(r.timestamp) * 60
        hit == Conflicting(rows, mt, r)
    IN  IF hit = {}
        THEN Append(rows, KeystrokeColumns(mt, r))
        ELSE [i \in 1..Len(rows) |->
                 IF i \in hit
                 THEN [KeystrokeColumns(mt, r) EXCEPT
                          !.app_name = rows[i].app_name,
                          !.browser_domain = Coalesce(r.browser_domain, rows[i].browser_domain),
                          !.browser_url = Coalesce(r.browser_url, rows[i].browser_url)]
                 ELSE rows[i]]

upsert_keystroke(rows, r) ==
    LET mt == MinuteOf(r.timestamp) * 60
        hit == Conflicting(rows, mt, r)
    IN  IF hit = {}
        THEN Append(rows, KeystrokeColumns(mt, r))
        ELSE [i \in 1..Len(rows) |->
                 IF i \in hit THEN MergeKeystroke(rows[i], r) ELSE rows[i]]

\* Records handed to upsert_keystroke: two seconds of one minute and the first
\* second of the next; no application or one of two; two sets of counts; no
\* browser context or one of two.
UpsertTimestamps == {61, 119, 120}

UpsertCounts == {<<1, 0, 0, 0>>, <<3, 1, 1, 2>>}

BrowserContexts ==
    {[domain |-> "a.example", url |-> "https://a.example/x"],
     [domain |-> "b.example", url |-> "https://b.example/y"]}

UpsertRecords ==
    {[KeystrokeRecordNew(ts) EXCEPT
         !.app_name = IF app = None THEN None ELSE Some(Unwrap(app).name),
         !.app_bundle_id = IF app = None THEN None ELSE Some(Unwrap(app).bundle_id),
         !.char_count = n[1], !.word_count = n[2],
         !.paragraph_count = n[3], !.backspace_count = n[4],
         !.browser_domain = IF ctx = None THEN None ELSE Some(Unwrap(ctx).domain),
         !.browser_url = IF ctx = None THEN None ELSE Some(Unwrap(ctx).url)] :
     ts \in UpsertTimestamps, app \in EventApps, n \in UpsertCounts,
     ctx \in {None} \cup {Some(c) : c \in BrowserContexts}}

StoreInit ==
    /\ keystrokes = <<>>
    /\ ulog = <<>>

UpsertCall ==
    /\ Len(ulog) < MaxUpserts
    /\ \E r \in UpsertRecords :
          /\ keystrokes' = upsert_keystroke(keystrokes, r)
          /\ ulog' = Append(ulog, [record |-> r, ok |-> TRUE])
    /\ UNCHANGED <<counterVars, aggVars, sessVars, listenerVars, daemonVars, concVars>>

(***************************************************************************)
(* The daemon (daemon main.rs): KeystrokeTracker, process_key, flush, and  *)
(* main's ways out of rdev::listen.  Times are whole seconds.              *)
(***************************************************************************)
KeystrokeTrackerNew ==
    [current_minute |-> 0, records |-> EmptyMap, pending_word_chars |-> 0,
     last_app_check |-> 0, cached_app |-> None]

is_browser(bundle_id) ==
    bundle_id \in {"com.JadeApps.Helium", "com.google.Chrome",
                   "org.mozilla.firefox", "com.apple.Safari"}

\* The keys pressed: a letter, the boundary keys, Backspace and a modifier.
DaemonKeys == {"KeyA", "Space", "Return", "Backspace", "ShiftLeft"}

\* (is_char, is_word_boundary, is_backspace, is_enter)
KeyClass(key) ==
    CASE key \in {"Space", "Tab"} ->
            [is_char |-> TRUE, is_word_boundary |-> TRUE,
             is_backspace |-> FALSE, is_enter |-> FALSE]
      [] key = "Return" ->
            [is_char |-> TRUE, is_word_boundary |-> TRUE,
             is_backspace |-> FALSE, is_enter |-> TRUE]
      [] key = "Backspace" ->
            [is_char |-> FALSE, is_word_boundary |-> FALSE,
             is_backspace |-> TRUE, is_enter |-> FALSE]
      [] key = "KeyA" ->
            [is_char |-> TRUE, is_word_boundary |-> FALSE,
             is_backspace |-> FALSE, is_enter |-> FALSE]
      [] OTHER ->
            [is_char |-> FALSE, is_word_boundary |-> FALSE,
             is_backspace |-> FALSE, is_enter |-> FALSE]

\* The applications in front of the daemon: a plain one and a browser.
DaemonApps ==
    {[name |-> "Alpha", bundle_id |-> "com.alpha"],
     [name |-> "Chrome", bundle_id |-> "com.google.Chrome"]}

\* What get_active_app().ok() and get_browser_context() can give together:
\* no application, the plain one, or the browser with no page on record or
\* on one of two pages.
DaemonFronts ==
    {[active_app |-> None, context |-> None]}
    \cup {[active_app |-> Some(a), context |-> None] : a \in DaemonApps}
    \cup {[active_app |-> Some(a), context |-> Some(c)] :
             a \in {x \in DaemonApps : is_browser(x.bundle_id)},
             c \in BrowserContexts}

\* Seconds between two key presses.
DaemonElapsed == {0, 1, 60}

\* The order in which a drain hands out the records of a map.
RECURSIVE DrainOrder(_)
DrainOrder(m) ==
    IF DOMAIN m = {}
    THEN <<>>
    ELSE LET k == CHOOSE x \in DOMAIN m : TRUE
         IN  <<m[k]>> \o DrainOrder([y \in DOMAIN m \ {k} |-> m[y]])

\* The upserts of one flush, in order; each fails when the database does.
RECURSIVE UpsertAll(_, _, _)
UpsertAll(rows, rs, upsert_ok) ==
    IF rs = <<>>
    THEN [rows |-> rows, handed |-> <<>>]
    ELSE LET r == Head(rs)
             wanted == r.char_count > 0 \/ r.backspace_count > 0
             rows1 == IF wanted /\ upsert_ok THEN upsert_keystroke(rows, r) ELSE rows
             rest == UpsertAll(rows1, Tail(rs), upsert_ok)
         IN  [rows |-> rest.rows,
              handed |-> IF wanted
                         THEN <<[record |-> r, ok |-> upsert_ok]>> \o rest.handed
                         ELSE rest.handed]

flush(t, rows, upsert_ok) ==
    LET u == UpsertAll(rows, DrainOrder(t.records), upsert_ok)
    IN  [tracker |-> [t EXCEPT !.records = EmptyMap],
         rows |-> u.rows, handed |-> u.handed]

\* "If we moved to a new minute, flush old records", then the minute is set.
KeyRollover(t, rows, minute, upsert_ok) ==
    IF minute # t.current_minute /\ t.current_minute # 0
    THEN LET f == flush(t, rows, upsert_ok)
         IN  [tracker |-> [f.tracker EXCEPT !.current_minute = minute],
              rows |-> f.rows, handed |-> f.handed, rolled |-> TRUE]
    ELSE [tracker |-> [t EXCEPT !.current_minute = minute],
          rows |-> rows, handed |-> <<>>, rolled |-> FALSE]

\* A resolver called for every key.
ResolveOnEveryKey(t, now_s) == TRUE

\* "Check active app every 2 seconds": whether this key calls get_active_app.
ShouldResolve(t, now_s) == now_s - t.last_app_check >= 2

\* "Check active app every 2 seconds (cache it)"
RefreshApp(t, now_s, front) ==
    IF ShouldResolve(t, now_s)
    THEN [t EXCEPT !.cached_app = front.active_app, !.last_app_check = now_s]
    ELSE t

\* The browser context fetched for the cached application.
KeyContext(app, front) ==
    IF app # None /\ is_browser(Unwrap(app).bundle_id) THEN front.context ELSE None

\* A record that keeps the browser context it was created with.
KeyRecordKeepsContext(t, app, ctx, now_s) ==
    IF AppKey(app) \in DOMAIN t.records
    THEN t.records[AppKey(app)]
    ELSE [KeystrokeRecordNew(now_s) EXCEPT
             !.app_name = IF app = None THEN None ELSE Some(Unwrap(app).name),
             !.app_bundle_id = IF app = None THEN None
                               ELSE Some(Unwrap(app).bundle_id),
             !.browser_domain = IF ctx = None THEN None
                                ELSE Some(Unwrap(ctx).domain),
             !.browser_url = IF ctx = None THEN None ELSE Some(Unwrap(ctx).url)]

\* "Get or create record", with the browser context brought up to date.
KeyRecord(t, app, ctx, now_s) ==
    IF AppKey(app) \in DOMAIN t.records
    THEN IF ctx = None
         THEN t.records[AppKey(app)]
         ELSE [t.records[AppKey(app)] EXCEPT
                  !.browser_domain = Some(Unwrap(ctx).domain),
                  !.browser_url = Some(Unwrap(ctx).url)]
    ELSE [KeystrokeRecordNew(now_s) EXCEPT
             !.app_name = IF app = None THEN None ELSE Some(Unwrap(app).name),
             !.app_bundle_id = IF app = None THEN None
                               ELSE Some(Unwrap(app).bundle_id),
             !.browser_domain = IF ctx = None THEN None
                                ELSE Some(Unwrap(ctx).domain),
             !.browser_url = IF ctx = None THEN None ELSE Some(Unwrap(ctx).url)]

\* pending_word_chars after the character and backspace updates.
PendingAfterKey(pending, k) ==
    IF k.is_backspace /\ pending + (IF k.is_char /\ ~k.is_word_boundary THEN 1 ELSE 0) > 0
    THEN pending + (IF k.is_char /\ ~k.is_word_boundary THEN 1 ELSE 0) - 1
    ELSE pending + (IF k.is_char /\ ~k.is_word_boundary THEN 1 ELSE 0)

\* "Word completed on boundary if we had pending chars"
WordCompleted(pending, k) == k.is_word_boundary /\ PendingAfterKey(pending, k) > 0

\* "Update counts"
CountKey(r, pending, k) ==
    [r EXCEPT !.char_count = @ + (IF k.is_char THEN 1 ELSE 0),
              !.backspace_count = @ + (IF k.is_backspace THEN 1 ELSE 0),
              !.paragraph_count = @ + (IF k.is_enter THEN 1 ELSE 0),
              !.word_count = @ + (IF WordCompleted(pending, k) THEN 1 ELSE 0)]

\* The tracker once the relevant key k is counted for its cached application.
KeyCounted(t, now_s, front, k) ==
    [t EXCEPT
        !.records = (AppKey(t.cached_app) :>
                        CountKey(KeyRecord(t, t.cached_app,
                                           KeyContext(t.cached_app, front), now_s),
                                 t.pending_word_chars, k)) @@ @,
        !.pending_word_chars = IF WordCompleted(@, k) THEN 0 ELSE PendingAfterKey(@, k)]

process_key(t, rows, key, now_s, front, upsert_ok) ==
    LET st == KeyRollover(t, rows, MinuteOf(now_s), upsert_ok)
        t2 == RefreshApp(st.tracker, now_s, front)
    IN  IF ~KeyClass(key).is_char /\ ~KeyClass(key).is_backspace
        THEN [tracker |-> t2, rows |-> st.rows, handed |-> st.handed,
              rolled |-> st.rolled, app_id |-> None, created |-> FALSE,
              word |-> FALSE, polled |-> ShouldResolve(st.tracker, now_s),
              context |-> None]
        ELSE [tracker |-> KeyCounted(t2, now_s, front, KeyClass(key)),
              rows |-> st.rows, handed |-> st.handed, rolled |-> st.rolled,
              app_id |-> Some(AppKey(t2.cached_app)),
              created |-> AppKey(t2.cached_app) \notin DOMAIN t2.records,
              word |-> WordCompleted(t2.pending_word_chars, KeyClass(key)),
              polled |-> ShouldResolve(st.tracker, now_s),
              context |-> KeyContext(t2.cached_app, front)]

\* An observer of the keys: how many were pressed, how many records were
\* created, which applications have received a non-boundary character since
\* their own last boundary key, whether a minute rollover still waits for its
\* first relevant key, the last call of get_active_app (when, and its
\* answer), the browser contexts get_browser_context has returned since the
\* records were last drained, and the last key's outcome.
DaemonObsNew ==
    [keys |-> 0, created |-> 0, typed |-> {}, fresh |-> FALSE,
     resolved |-> None, seen |-> EmptyMap,
     last |-> [key |-> None, app_id |-> None, rolled |-> FALSE, word |-> FALSE,
               typed |-> FALSE, anytyped |-> FALSE, first |-> FALSE,
               polled |-> FALSE, had |-> None]]

DaemonObsKey(o, key, out, now_s, front) ==
    [keys |-> o.keys + 1,
     resolved |-> IF out.polled
                  THEN Some([at |-> now_s, answer |-> front.active_app])
                  ELSE o.resolved,
     seen |-> IF out.context = None
              THEN (IF out.rolled THEN EmptyMap ELSE o.seen)
              ELSE (Unwrap(out.app_id) :> Unwrap(out.context))
                       @@ (IF out.rolled THEN EmptyMap ELSE o.seen),
     created |-> o.created + (IF out.created THEN 1 ELSE 0),
     typed |-> IF out.app_id = None THEN o.typed
               ELSE IF KeyClass(key).is_word_boundary
                    THEN o.typed \ {Unwrap(out.app_id)}
               ELSE IF KeyClass(key).is_char
                    THEN o.typed \cup {Unwrap(out.app_id)}
               ELSE o.typed,
     fresh |-> out.app_id = None /\ (out.rolled \/ o.fresh),
     last |-> [key |-> Some(key), app_id |-> out.app_id, rolled |-> out.rolled,
               word |-> out.word,
               typed |-> out.app_id # None /\ Unwrap(out.app_id) \in o.typed,
               anytyped |-> o.typed # {},
               first |-> out.app_id # None /\ (out.rolled \/ o.fresh),
               polled |-> out.polled,
               had |-> IF /\ out.app_id # None
                          /\ ~out.rolled
                          /\ Unwrap(out.app_id) \in DOMAIN o.seen
                       THEN Some(o.seen[Unwrap(out.app_id)])
                       ELSE None]]

DaemonInit ==
    /\ daemon = [pc |-> "listening", exit |-> None, tracker |-> KeystrokeTrackerNew]
    /\ denv = [now |-> 120]
    /\ dobs = DaemonObsNew

\* A key press reaches the listen callback d seconds after the last one;
\* front is what the platform and the context table would answer then.
DaemonKeyPress(key, d, front, upsert_ok) ==
    /\ daemon.pc = "listening"
    /\ dobs.keys < MaxDaemonKeys
    /\ LET out == process_key(daemon.tracker, keystrokes, key, denv.now + d,
                              front, upsert_ok)
       IN  /\ daemon' = [daemon EXCEPT !.tracker = out.tracker]
           /\ keystrokes' = out.rows
           /\ ulog' = ulog \o out.handed
           /\ denv' = [denv EXCEPT !.now = @ + d]
           /\ dobs' = DaemonObsKey(dobs, key, out, denv.now + d, front)
    /\ UNCHANGED <<counterVars, aggVars, sessVars, listenerVars, concVars>>

\* listen returns Ok: main flushes and ends.
DaemonListenOk(upsert_ok) ==
    /\ daemon.pc = "listening"
    /\ LET out == flush(daemon.tracker, keystrokes, upsert_ok)
       IN  /\ daemon' = [pc |-> "exited", exit |-> Some("Ok"), tracker |-> out.tracker]
           /\ keystrokes' = out.rows
           /\ ulog' = ulog \o out.handed
    /\ UNCHANGED <<denv, dobs, counterVars, aggVars, sessVars, listenerVars, concVars>>

\* listen returns Err: main logs it and returns the error.
DaemonListenErr ==
    /\ daemon.pc = "listening"
    /\ daemon' = [daemon EXCEPT !.pc = "exited", !.exit = Some("Err")]
    /\ UNCHANGED <<denv, dobs, storeVars, counterVars, aggVars, sessVars,
                   listenerVars, concVars>>

\* Ctrl+C while listen blocks: main installs no handler, the process ends.
DaemonInterrupt ==
    /\ daemon.pc = "listening"
    /\ daemon' = [daemon EXCEPT !.pc = "exited", !.exit = Some("Interrupted")]
    /\ UNCHANGED <<denv, dobs, storeVars, counterVars, aggVars, sessVars,
                   listenerVars, concVars>>

(***************************************************************************)
(* The SessionTracker called from several threads (core session.rs).  A    *)
(* call reads the clock where the code does (record_keystroke, check_idle  *)
(* and end_session before they take the lock; current_wpm and peak_wpm     *)
(* not at all), waits for current_session's Mutex, decides on the session  *)
(* it finds, and completes its database calls and its writes before the    *)
(* guard is dropped.                                                       *)
(***************************************************************************)
ConcThreads == {1, 2}

ConcOps ==
    {<<"record_keystroke", k>> : k \in KeystrokeArgs}
    \cup {<<"check_idle", <<>>>>, <<"end_session", <<>>>>,
          <<"current_wpm", <<>>>>, <<"peak_wpm", <<>>>>}

ReadsClock(op) == op \in {"record_keystroke", "check_idle", "end_session"}

IdleThread ==
    [pc |-> "idle", op |-> "none", args |-> <<>>, now |-> None, out |-> None,
     value |-> Zero, seen |-> None]

\* A Mutex that lets every locker in.
MutexAlwaysFree(l) == TRUE

\* self.current_session.lock() goes through when no thread holds the guard.
MutexFree(l) == l = None

\* What the body of op does with the tracker and the sessions table.
CallOutcome(op, args, t, tr, rows) ==
    CASE op = "record_keystroke" ->
            record_keystroke(tr, rows, Unwrap(t), args[1], args[2], TRUE, TRUE)
      [] op = "check_idle" -> check_idle(tr, rows, Unwrap(t), TRUE)
      [] op = "end_session" -> end_session(tr, rows, Unwrap(t), TRUE)
      [] OTHER -> Outcome(tr, rows, "Ok", None, None)

CallValue(op, tr) ==
    CASE op = "current_wpm" -> current_wpm(tr)
      [] op = "peak_wpm" -> peak_wpm(tr)
      [] OTHER -> Zero

ConcInit ==
    /\ threads = [of |-> [th \in ConcThreads |-> IdleThread], begun |-> 0, ticks |-> 0]
    /\ lock = None
    /\ hist = <<>>

\* Thread th enters a call; the three that use the time read the clock first.
ConcBegin(th, op, args) ==
    /\ threads.of[th].pc = "idle"
    /\ threads.begun < MaxConcCalls
    /\ threads' = [threads EXCEPT
                      !.begun = @ + 1,
                      !.of[th] = [IdleThread EXCEPT
                                     !.pc = "wait", !.op = op, !.args = args,
                                     !.now = IF ReadsClock(op) THEN Some(now)
                                             ELSE None]]
    /\ UNCHANGED <<lock, hist, sessVars, counterVars, aggVars, listenerVars,
                   storeVars, daemonVars>>

\* Time passes.
ConcTick(d) ==
    /\ threads.ticks < MaxConcTicks
    /\ d > 0
    /\ now' = now + d
    /\ threads' = [threads EXCEPT !.ticks = @ + 1]
    /\ UNCHANGED <<lock, hist, tracker, db, scall, counterVars, aggVars,
                   listenerVars, storeVars, daemonVars>>

ConcLock(th) ==
    /\ threads.of[th].pc = "wait"
    /\ MutexFree(lock)
    /\ lock' = Some(th)
    /\ threads' = [threads EXCEPT !.of[th].pc = "locked"]
    /\ UNCHANGED <<hist, sessVars, counterVars, aggVars, listenerVars, storeVars,
                   daemonVars>>

\* Under the guard the body looks at the session and decides what to do.
ConcDecide(th) ==
    /\ threads.of[th].pc = "locked"
    /\ threads' = [threads EXCEPT
                      !.of[th].pc = "persist",
                      !.of[th].out = Some(CallOutcome(threads.of[th].op,
                                                      threads.of[th].args,
                                                      threads.of[th].now,
                                                      tracker, db)),
                      !.of[th].value = CallValue(threads.of[th].op, tracker),
                      !.of[th].seen = Some(<<tracker, db>>)]
    /\ UNCHANGED <<lock, hist, sessVars, counterVars, aggVars, listenerVars,
                   storeVars, daemonVars>>

\* The database calls and the writes to the session are done, the call
\* returns and the guard is dropped.
ConcComplete(th) ==
    /\ threads.of[th].pc = "persist"
    /\ tracker' = Unwrap(threads.of[th].out).tracker
    /\ db' = Unwrap(threads.of[th].out).db
    /\ lock' = None
    /\ hist' = Append(hist, [th |-> th, op |-> threads.of[th].op,
                             args |-> threads.of[th].args,
                             now |-> threads.of[th].now,
                             result |-> Unwrap(threads.of[th].out).result,
                             value |-> threads.of[th].value])
    /\ threads' = [threads EXCEPT !.of[th] = IdleThread]
    /\ UNCHANGED <<now, scall, counterVars, aggVars, listenerVars, storeVars,
                   daemonVars>>

(***************************************************************************)
(* Specifications.                                                         *)
(***************************************************************************)
Init ==
    /\ CounterInit /\ AggInit /\ SessionInit
    /\ ListenerInit /\ StoreInit /\ DaemonInit /\ ConcInit

CounterNext == CounterProcessCall \/ CounterResetCall

SpecCounter == Init /\ [][CounterNext]_vars

AggNext == AggProcessCall \/ AggFlushCall

SpecAgg == Init /\ [][AggNext]_vars

\* The tracker over a database whose calls succeed.
SessionNext ==
    \/ \E d \in Elapsed, k \in KeystrokeArgs :
          RecordKeystrokeCall(d, k[1], k[2], TRUE, TRUE)
    \/ \E d \in Elapsed : CheckIdleCall(d, TRUE)
    \/ \E d \in Elapsed : EndSessionCall(d, TRUE)
    \/ CurrentWpmCall
    \/ PeakWpmCall

SpecSession == Init /\ [][SessionNext]_vars

\* The tracker over a database whose update_session and insert_session may
\* each fail.
FailingDbNext ==
    \/ \E d \in Elapsed, k \in KeystrokeArgs, upd_ok \in BOOLEAN, ins_ok \in BOOLEAN :
          RecordKeystrokeCall(d, k[1], k[2], upd_ok, ins_ok)
    \/ \E d \in Elapsed, upd_ok \in BOOLEAN : CheckIdleCall(d, upd_ok)
    \/ \E d \in Elapsed, upd_ok \in BOOLEAN : EndSessionCall(d, upd_ok)
    \/ CurrentWpmCall
    \/ PeakWpmCall

SpecFailingDb == Init /\ [][FailingDbNext]_vars

ListenerNext ==
    \/ ListenerStartCall
    \/ ListenerStopCall
    \/ ListenerDrop
    \/ \E i \in 1..Len(hooks) : HookInstall(i)
    \/ \E i \in 1..Len(hooks) : HookKeyPress(i)
    \/ \E i \in 1..Len(hooks) : HookCallback(i)
    \/ \E i \in 1..Len(hooks) : HookReturn(i)

SpecListener == Init /\ [][ListenerNext]_vars

DaemonNext ==
    \/ \E key \in DaemonKeys, d \in DaemonElapsed, front \in DaemonFronts,
          ok \in BOOLEAN :
          DaemonKeyPress(key, d, front, ok)
    \/ \E ok \in BOOLEAN : DaemonListenOk(ok)
    \/ DaemonListenErr
    \/ DaemonInterrupt

\* The daemon makes no SessionTracker: the one of the state stays as
\* SessionTracker::new leaves it (idle timeout 5 s).
DaemonInitial == Init /\ tracker = TrackerNew(Seconds(5))

SpecDaemon == DaemonInitial /\ [][DaemonNext]_vars

ConcNext ==
    \/ \E th \in ConcThreads, o \in ConcOps : ConcBegin(th, o[1], o[2])
    \/ \E d \in Elapsed : ConcTick(d)
    \/ \E th \in ConcThreads : ConcLock(th)
    \/ \E th \in ConcThreads : ConcDecide(th)
    \/ \E th \in ConcThreads : ConcComplete(th)

SpecConc == Init /\ [][ConcNext]_vars

StoreNext == UpsertCall

SpecStore == Init /\ [][StoreNext]_vars

(***************************************************************************)
(* Properties of the KeystrokeCounter.                                     *)
(***************************************************************************)
\* Calls i+1..j of the log are N = j-i-1 Character events and then one
\* boundary event, starting from a counter with pending_chars = 0.
IsWordRun(i, j) ==
    /\ i < j
    /\ CState(i).pending_chars = 0
    /\ \A k \in (i + 1)..(j - 1) : clog[k].ev = "Character"
    /\ is_word_boundary(clog[j].ev)

\* C1: from any state with pending_chars = 0, N >= 1 Character events followed
\* by one boundary event (Space, Tab, Enter) increase total_chars by exactly
\* N+1 and total_words by exactly 1; with N = 0 the boundary event increases
\* total_chars by 1 and leaves total_words unchanged.
C1_WordRun ==
    \A i \in 0..Len(clog), j \in 1..Len(clog) :
        IsWordRun(i, j) =>
            LET N == j - i - 1
            IN  /\ CState(j).total_chars = CState(i).total_chars + N + 1
                /\ CState(j).total_words =
                       CState(i).total_words + (IF N >= 1 THEN 1 ELSE 0)

\* A run of two characters and a boundary, and right after it a lone boundary,
\* both starting from a counter that has counted before.
C1_Witness ==
    \E i \in 1..Len(clog), j \in 1..Len(clog) :
        /\ IsWordRun(i, j) /\ j - i - 1 = 2
        /\ CState(i).total_chars > 0
        /\ j < Len(clog) /\ IsWordRun(j, j + 1)

(***************************************************************************)
(* Properties of the KeystrokeAggregator.                                  *)
(***************************************************************************)
RecordCounts(r) ==
    <<r.char_count, r.word_count, r.paragraph_count, r.backspace_count>>

\* The application key a record was created for.
RecordKey(r) ==
    IF r.app_bundle_id = None THEN "unknown" ELSE Unwrap(r.app_bundle_id)

\* The counts of a record that has seen one event of kind et and nothing
\* else: <<chars, words, paragraphs, backspaces>>.
SingleEventCounts(et) ==
    <<IF et \in {"Character", "Space", "Tab", "Enter"} THEN 1 ELSE 0,
      0,
      IF et = "Enter" THEN 1 ELSE 0,
      IF et = "Backspace" THEN 1 ELSE 0>>

\* This step is a process call: the first event of minute M+1 after events
\* that all fell in minute M (and no flush).
IsFirstEventOfNextMinute(M) ==
    /\ acall'.op = "process"
    /\ obs'.calls = obs.calls + 1
    /\ obs.flushes = 0
    /\ obs.minutes = {M}
    /\ MinuteOf(acall'.ev.timestamp) = M + 1

\* What C2 says of such a step.
RolloverHandsOverMinute ==
    LET e == acall'.ev
        k == AppKey(e.app)
    IN  /\ DOMAIN ret' = obs.apps
        /\ \A a \in DOMAIN ret' : RecordKey(ret'[a]) = a
        /\ ~obs.nonempty
        /\ DOMAIN agg'.records = {k}
        /\ agg'.records[k].timestamp = e.timestamp
        /\ RecordKey(agg'.records[k]) = k
        /\ RecordCounts(agg'.records[k]) = SingleEventCounts(e.event_type)

\* C2: after any events whose timestamps all fall in minute M, for any set of
\* applications, the first event of minute M+1 returns exactly one batch with
\* one record for every application that received an event in minute M; every
\* earlier call returned an empty list; afterwards the only in-flight record
\* is a fresh one for the triggering event's application whose counts reflect
\* only that event.
C2_MinuteRollover ==
    [][\A M \in {MinuteOf(t) : t \in EventTimestamps} :
          IsFirstEventOfNextMinute(M) => RolloverHandsOverMinute]_vars

\* The same for every minute but the epoch's first, whose number is the
\* value current_minute holds before any event.
RolloverAfterNonZeroMinute ==
    [][\A M \in {MinuteOf(t) : t \in EventTimestamps} \ {0} :
          IsFirstEventOfNextMinute(M) => RolloverHandsOverMinute]_vars

\* C3: for events of a single application within a single minute, the
\* record's char_count, word_count, paragraph_count and backspace_count are
\* the total_chars, total_words, total_paragraphs and total_backspaces of a
\* KeystrokeCounter after the same events.
C3_RecordFollowsCounter ==
    (obs.flushes = 0 /\ Cardinality(obs.apps) = 1 /\ Cardinality(obs.minutes) = 1)
    => \A k \in obs.apps :
          /\ k \in DOMAIN agg.records
          /\ RecordCounts(agg.records[k]) = CounterStats(obs.ref)

\* The same without word_count.
RecordFollowsCounterButWords ==
    (obs.flushes = 0 /\ Cardinality(obs.apps) = 1 /\ Cardinality(obs.minutes) = 1)
    => \A k \in obs.apps :
          /\ k \in DOMAIN agg.records
          /\ agg.records[k].char_count = obs.ref.total_chars
          /\ agg.records[k].paragraph_count = obs.ref.total_paragraphs
          /\ agg.records[k].backspace_count = obs.ref.total_backspaces

\* No record ever holds a word.
RecordsHoldNoWord == \A k \in DOMAIN agg.records : agg.records[k].word_count = 0

\* This step is the first flush, after events of exactly two applications
\* within one minute.
IsFlushAfterTwoApps ==
    /\ acall'.op = "flush"
    /\ obs'.calls = obs.calls + 1
    /\ obs.flushes = 0
    /\ Cardinality(obs.apps) = 2
    /\ Cardinality(obs.minutes) = 1

\* This step is a flush right after a flush.
IsSecondFlush ==
    /\ acall'.op = "flush"
    /\ obs'.calls = obs.calls + 1
    /\ acall.op = "flush"

\* C4: after events for two distinct applications, interleaved in any order
\* within one minute, flush() returns exactly one record per application,
\* each carrying that application's counts, and a second flush() right after
\* it returns an empty list.
C4_FlushPerApp ==
    [][/\ IsFlushAfterTwoApps =>
            /\ DOMAIN ret' = obs.apps
            /\ \A a \in DOMAIN ret' :
                  /\ RecordKey(ret'[a]) = a
                  /\ RecordCounts(ret'[a]) = CounterStats(obs.per[a])
       /\ IsSecondFlush => ret' = EmptyMap]_vars

\* The same without word_count.
FlushPerAppButWords ==
    [][/\ IsFlushAfterTwoApps =>
            /\ DOMAIN ret' = obs.apps
            /\ \A a \in DOMAIN ret' :
                  /\ RecordKey(ret'[a]) = a
                  /\ ret'[a].char_count = obs.per[a].total_chars
                  /\ ret'[a].paragraph_count = obs.per[a].total_paragraphs
                  /\ ret'[a].backspace_count = obs.per[a].total_backspaces
       /\ IsSecondFlush => ret' = EmptyMap]_vars

(***************************************************************************)
(* Properties of the SessionTracker.                                       *)
(***************************************************************************)
\* The open session, when there is one.
Active == Unwrap(tracker.current_session)

\* This step is a call of op.
IsCall(op) == scall'.op = op /\ scall'.n = scall.n + 1

\* Ids of the rows that are open (end_time NULL).
OpenRows(rows) == {i \in 1..Len(rows) : rows[i].end_time = None}

\* A session just opened at t by a keystroke (c, w), and its row.
FreshSession(t, c, w, id) ==
    [session |-> [id |-> Some(id), start_time |-> t, end_time |-> None,
                  char_count |-> c, word_count |-> w,
                  wpm_avg |-> None, wpm_peak |-> None],
     last_keystroke |-> t,
     keystroke_times |-> <<<<t, c>>>>,
     current_wpm |-> Zero,
     peak_wpm |-> Zero]

FreshRow(t, c, w) ==
    [start_time |-> Timestamp(t), end_time |-> None, char_count |-> c,
     word_count |-> w, wpm_avg |-> None, wpm_peak |-> None]

\* Row id is closed with the counts of session a, and its end_time, wpm_avg
\* and wpm_peak are set.
ClosedRowOf(rows, a) ==
    LET r == rows[Unwrap(a.session.id)]
    IN  /\ IsSome(r.end_time) /\ IsSome(r.wpm_avg) /\ IsSome(r.wpm_peak)
        /\ r.char_count = a.session.char_count
        /\ r.word_count = a.session.word_count
        /\ r.start_time = Timestamp(a.session.start_time)

\* The open rows are the tracker's session and nothing else.
AtMostOneOpen ==
    OpenRows(db) = IF tracker.current_session = None
                   THEN {}
                   ELSE {Unwrap(Active.session.id)}

OpensFromIdle ==
    (/\ IsCall("record_keystroke")
     /\ tracker.current_session = None
     /\ scall'.result = "Ok")
    => /\ tracker'.current_session =
              Some(FreshSession(now', scall'.args[1], scall'.args[2], Len(db) + 1))
       /\ db' = Append(db, FreshRow(now', scall'.args[1], scall'.args[2]))

IsIdleRestart ==
    /\ IsCall("record_keystroke")
    /\ tracker.current_session # None
    /\ now' - Active.last_keystroke > tracker.idle_timeout
    /\ scall'.result = "Ok"

KeystrokeWithinWindow ==
    /\ scall.op = "record_keystroke" /\ scall.result = "Ok"
    /\ scall.ins = None
    /\ tracker.current_session # None

\* The window's span, in ticks, and its characters.
WindowSpan == Active.keystroke_times[Len(Active.keystroke_times)][1]
                  - Active.keystroke_times[1][1]
WindowChars == SumChars(Active.keystroke_times)

\* C9: after a keystroke recorded within the idle window, current_wpm is
\* (sum of char_count over the window's entries / 5) / (span between earliest
\* and latest entry, in minutes), and 0 when the window has fewer than 2
\* entries or the span is not positive.
C9_InstantaneousWpm ==
    KeystrokeWithinWindow =>
        Active.current_wpm =
            IF Len(Active.keystroke_times) < 2 \/ WindowSpan <= 0
            THEN Zero
            ELSE Ratio(WindowChars * 60 * TicksPerSec, 5 * WindowSpan)

\* The same with the span cut to whole seconds.
CurrentWpmOverWholeSeconds ==
    KeystrokeWithinWindow =>
        Active.current_wpm =
            IF Len(Active.keystroke_times) < 2 \/ WindowSpan < TicksPerSec
            THEN Zero
            ELSE Ratio(WindowChars * 60, 5 * (WindowSpan \div TicksPerSec))

\* Two entries 12 seconds apart totalling 5 characters give 5 WPM.
TwelveSecondWindow ==
    /\ KeystrokeWithinWindow
    /\ Len(Active.keystroke_times) = 2
    /\ WindowSpan = Seconds(12)
    /\ WindowChars = 5

TwelveSecondExample == TwelveSecondWindow => Active.current_wpm = <<5, 1>>

\* C10: at every close (check_idle, a keystroke after the idle timeout,
\* end_session) the persisted wpm_avg is (session.char_count / 5) /
\* ((last_keystroke - start_time) in minutes), and 0 when last_keystroke -
\* start_time is not positive.
C10_AverageWpm ==
    [][(scall'.n = scall.n + 1 /\ scall'.upd # None) =>
          LET dur == Active.last_keystroke - Active.session.start_time
              avg == IF dur <= 0
                     THEN Zero
                     ELSE Ratio(Active.session.char_count * 60 * TicksPerSec, 5 * dur)
          IN  /\ Unwrap(scall'.upd).wpm_avg = Some(avg)
              /\ db'[Unwrap(Active.session.id)].wpm_avg = Some(avg)]_vars

\* The same with the duration cut to whole seconds.
AverageWpmOverWholeSeconds ==
    [][(scall'.n = scall.n + 1 /\ scall'.upd # None) =>
          LET dur == Active.last_keystroke - Active.session.start_time
              avg == IF dur < TicksPerSec
                     THEN Zero
                     ELSE Ratio(Active.session.char_count * 60, 5 * (dur \div TicksPerSec))
          IN  /\ Unwrap(scall'.upd).wpm_avg = Some(avg)
              /\ db'[Unwrap(Active.session.id)].wpm_avg = Some(avg)]_vars

(***************************************************************************)
(* More properties of the KeystrokeCounter.                                *)
(***************************************************************************)
\* C14: process(Backspace) increases total_backspaces by exactly 1, leaves
\* total_chars, total_words and total_paragraphs as they were, takes 1 from
\* pending_chars when it is > 0 and leaves it at 0 when it is 0; after any
\* sequence of events pending_chars is never negative.
C14_Backspace ==
    /\ \A k \in 1..Len(clog) :
          clog[k].ev = "Backspace" =>
              /\ CState(k).total_backspaces = CState(k - 1).total_backspaces + 1
              /\ CState(k).total_chars = CState(k - 1).total_chars
              /\ CState(k).total_words = CState(k - 1).total_words
              /\ CState(k).total_paragraphs = CState(k - 1).total_paragraphs
              /\ CState(k).pending_chars =
                     IF CState(k - 1).pending_chars > 0
                     THEN CState(k - 1).pending_chars - 1
                     ELSE 0
    /\ \A k \in 0..Len(clog) : CState(k).pending_chars \in Nat

\* A Backspace with nothing pending after something was counted, and a
\* Backspace that takes a pending character.
C14_Witness ==
    /\ \E k \in 1..Len(clog) :
          /\ clog[k].ev = "Backspace"
          /\ CState(k - 1).pending_chars = 0
          /\ CState(k - 1).total_chars > 0
    /\ \E k \in 1..Len(clog) :
          /\ clog[k].ev = "Backspace"
          /\ CState(k - 1).pending_chars = 2

\* The last reset among the first k calls (0: none).
LastReset(k) ==
    IF \E m \in 1..k : clog[m].ev = "Reset"
    THEN CHOOSE m \in 1..k :
            /\ clog[m].ev = "Reset"
            /\ \A n \in (m + 1)..k : clog[n].ev # "Reset"
    ELSE 0

EntersSinceReset(k) ==
    Cardinality({m \in (LastReset(k) + 1)..k : clog[m].ev = "Enter"})

\* C15: every process(Enter) increases total_paragraphs by exactly 1 and
\* total_chars by 1, and completes a word (total_words + 1, pending_chars back
\* to 0) exactly when pending_chars > 0; no other event kind changes
\* total_paragraphs, so total_paragraphs is always the number of Enter events
\* since the last reset.
C15_Enter ==
    /\ \A k \in 1..Len(clog) :
          IF clog[k].ev = "Enter"
          THEN /\ CState(k).total_paragraphs = CState(k - 1).total_paragraphs + 1
               /\ CState(k).total_chars = CState(k - 1).total_chars + 1
               /\ CState(k).total_words = CState(k - 1).total_words
                      + (IF CState(k - 1).pending_chars > 0 THEN 1 ELSE 0)
               /\ CState(k).pending_chars = 0
          ELSE clog[k].ev # "Reset" =>
                   CState(k).total_paragraphs = CState(k - 1).total_paragraphs
    /\ \A k \in 0..Len(clog) : CState(k).total_paragraphs = EntersSinceReset(k)

\* After a reset: an Enter that completes a word and an Enter that does not.
C15_Witness ==
    \E r \in 1..Len(clog), i \in 1..Len(clog), j \in 1..Len(clog) :
        /\ clog[r].ev = "Reset" /\ CState(r - 1).total_paragraphs > 0
        /\ r < i /\ r < j
        /\ clog[i].ev = "Enter" /\ CState(i - 1).pending_chars > 0
        /\ clog[j].ev = "Enter" /\ CState(j - 1).pending_chars = 0

(***************************************************************************)
(* More properties of the KeystrokeAggregator.                             *)
(***************************************************************************)
\* This step is a call of flush().
IsFlush == acall'.op = "flush" /\ obs'.calls = obs.calls + 1

\* C20: flush() returns every in-flight record, leaves no in-flight record,
\* resets the word counters to zero and resets the current bucket to the
\* neutral "no bucket established" value: after flush the aggregator is in
\* the state of a freshly constructed one.
C20_FlushResets ==
    [][IsFlush => /\ ret' = agg.records
                  /\ agg' = AggNew]_vars

\* The same for the records and the counter alone.
FlushResetsButBucket ==
    [][IsFlush => /\ ret' = agg.records
                  /\ agg'.records = EmptyMap
                  /\ agg'.counter = CounterNew]_vars

\* flush() leaves current_minute as it was.
FlushKeepsBucket == [][IsFlush => agg'.current_minute = agg.current_minute]_vars

(***************************************************************************)
(* Properties of the Listener.                                             *)
(***************************************************************************)
IsListenerCall(op) == lcall'.op = op /\ lcall'.n = lcall.n + 1

\* C12: start called while is_running() is true returns AlreadyRunning, spawns
\* no further hook thread and leaves the running flag and the stop channel as
\* they were.
C12_StartWhileRunning ==
    [][(IsListenerCall("start") /\ is_running(listener)) =>
          /\ lcall'.result = "AlreadyRunning"
          /\ hooks' = hooks
          /\ chans' = chans
          /\ listener' = listener]_vars

\* A start refused while the one hook thread is listening.
C12_Witness ==
    /\ lcall.op = "start" /\ lcall.result = "AlreadyRunning"
    /\ Len(hooks) = 1 /\ hooks[1].state = "listening"
    /\ is_running(listener) /\ listener.stop_tx = Some(1)

\* C13: stop() always returns, without waiting for the hook thread, even when
\* the OS hook never yields control; it can be called any number of times,
\* before any start and again after a stop, without error, and after each
\* call is_running() is false.
C13_StopReturns ==
    /\ [](ListenerLive => ENABLED ListenerStopCall)
    /\ [][IsListenerCall("stop") =>
             /\ lcall'.result = "Returned"
             /\ ~is_running(listener')
             /\ hooks' = hooks]_vars

\* A second stop in a row has returned while a hook thread still listens.
C13_Witness ==
    /\ lcall.op = "stop" /\ lcall.n >= 3
    /\ ~is_running(listener) /\ listener.stop_tx = None
    /\ \E i \in 1..Len(hooks) : hooks[i].state = "listening"
    /\ \E c \in 1..Len(chans) : chans[c].sent = 1

(***************************************************************************)
(* Properties of the keystrokes table.                                     *)
(***************************************************************************)
\* The key of a record: its minute-aligned timestamp and application id.
StoreKey(r) == <<MinuteOf(r.timestamp) * 60, r.app_bundle_id>>

UpsertedKeys == {StoreKey(ulog[i].record) : i \in {j \in 1..Len(ulog) : ulog[j].ok}}

RowsOf(k) ==
    {j \in 1..Len(keystrokes) :
        <<keystrokes[j].timestamp, keystrokes[j].app_bundle_id>> = k}

\* The records upserted for key k among the first n, in order.
UpsertsOf(k, n) == {i \in 1..n : ulog[i].ok /\ StoreKey(ulog[i].record) = k}

RECURSIVE SumCounts(_, _)
SumCounts(k, n) ==
    IF n = 0
    THEN <<0, 0, 0, 0>>
    ELSE LET rest == SumCounts(k, n - 1)
             r == ulog[n].record
         IN  IF n \in UpsertsOf(k, n)
             THEN <<rest[1] + r.char_count, rest[2] + r.word_count,
                    rest[3] + r.paragraph_count, rest[4] + r.backspace_count>>
             ELSE rest

\* The browser fields of the latest upsert for k that carried them.
LatestContext(k) ==
    LET with == {i \in UpsertsOf(k, Len(ulog)) : ulog[i].record.browser_domain # None}
    IN  IF with = {}
        THEN <<None, None>>
        ELSE LET i == CHOOSE m \in with : \A n \in with : n <= m
             IN  <<ulog[i].record.browser_domain, ulog[i].record.browser_url>>

OneRowFor(k) ==
    /\ Cardinality(RowsOf(k)) = 1
    /\ LET row == keystrokes[CHOOSE j \in RowsOf(k) : TRUE]
       IN  /\ <<row.char_count, row.word_count, row.paragraph_count,
                row.backspace_count>> = SumCounts(k, Len(ulog))
           /\ <<row.browser_domain, row.browser_url>> = LatestContext(k)

\* C16: after any sequence of upserts the table holds exactly one row per
\* (minute-aligned timestamp, application id) key, also for the key of records
\* with no detected application; the row's counts are the sums of the counts
\* of all records upserted for the key, and its browser_domain and browser_url
\* are those of the latest upsert for the key that carried a non-null value.
C16_UpsertPerKey ==
    /\ \A k \in UpsertedKeys : OneRowFor(k)
    /\ \A j \in 1..Len(keystrokes) :
          <<keystrokes[j].timestamp, keystrokes[j].app_bundle_id>> \in UpsertedKeys

\* The same for the keys of records with a detected application.
UpsertPerDetectedApp ==
    \A k \in UpsertedKeys : k[2] # None => OneRowFor(k)

\* Every upsert without an application has added a row of its own.
UndetectedAppRows ==
    \A k \in UpsertedKeys :
        k[2] = None => Cardinality(RowsOf(k)) = Cardinality(UpsertsOf(k, Len(ulog)))

(***************************************************************************)
(* Properties of the daemon.                                               *)
(***************************************************************************)
\* Nothing is left in flight, and every record created went to upsert once.
AllHandedOnce ==
    /\ daemon.tracker.records = EmptyMap
    /\ Len(ulog) = dobs.created

\* C17: on every path by which the daemon exits after capture has started
\* (listen returning normally, listen returning an error, shutdown being
\* signalled), every in-flight record with char_count > 0 or backspace_count
\* > 0 has been handed to the persistence upsert exactly once before the exit.
C17_ShutdownFlush == daemon.pc = "exited" => AllHandedOnce

\* The same for the exit after listen returned Ok.
ShutdownFlushAfterOk == daemon.exit = Some("Ok") => AllHandedOnce

\* The other exits hand out nothing: what was in flight stays in flight.
NoFlushOnOtherExits ==
    (daemon.pc = "exited" /\ daemon.exit # Some("Ok")) =>
        Len(ulog) + Cardinality(DOMAIN daemon.tracker.records) = dobs.created

\* C18: pending-word state is per application: a boundary key attributed to
\* application B adds to the word_count of B's record only if B itself has
\* received a non-boundary character since B's last boundary key; characters
\* typed while another application was active never count a word for B.
C18_PendingPerApp == dobs.last.word => dobs.last.typed

\* A word is counted only after some application received a character.
WordNeedsSomeCharacter == dobs.last.word => dobs.last.anytyped

\* C19: a minute rollover resets the pending-word state: when the first
\* relevant key after process_key detected a new minute and flushed is a
\* boundary key, no word is counted in the new minute's record, whatever was
\* typed before the rollover.
C19_RolloverResetsPending ==
    (/\ dobs.last.first
     /\ KeyClass(Unwrap(dobs.last.key)).is_word_boundary) => ~dobs.last.word

\* A rollover itself hands every record of the old minute to upsert.
RolloverFlushesRecords ==
    dobs.last.rolled =>
        Len(ulog) + Cardinality(DOMAIN daemon.tracker.records) = dobs.created

(***************************************************************************)
(* Properties of the SessionTracker under concurrent calls.                *)
(***************************************************************************)
\* The calls cs made one after another on tracker tr and table rows, each
\* with the clock reading it has: the final tracker and table, and what each
\* call returned.
RECURSIVE Replay(_, _, _)
Replay(cs, tr, rows) ==
    IF cs = <<>>
    THEN [tracker |-> tr, db |-> rows, returned |-> <<>>]
    ELSE LET c == Head(cs)
             out == CallOutcome(c.op, c.args, c.now, tr, rows)
             rest == Replay(Tail(cs), out.tracker, out.db)
         IN  [rest EXCEPT !.returned =
                  <<[result |-> out.result, value |-> CallValue(c.op, tr)]>> \o @]

CallOrders(n) ==
    {f \in [1..n -> 1..n] : \A i \in 1..n, j \in 1..n : f[i] = f[j] => i = j}

\* Calls made one after another read a clock that does not run backwards.
ClockOrdered(cs) ==
    \A i \in 1..Len(cs), j \in 1..Len(cs) :
        (i < j /\ cs[i].now # None /\ cs[j].now # None) =>
            Unwrap(cs[i].now) <= Unwrap(cs[j].now)

\* The completed calls, made one after another in the order f, leave the
\* tracker and the table as they are now and return what the calls returned.
ExplainedBy(f) ==
    LET cs == [i \in 1..Len(hist) |-> hist[f[i]]]
        run == Replay(cs, TrackerNew(tracker.idle_timeout), <<>>)
    IN  /\ run.tracker = tracker
        /\ run.db = db
        /\ \A i \in 1..Len(cs) :
              /\ run.returned[i].result = cs[i].result
              /\ run.returned[i].value = cs[i].value

\* While a call is between its decision and the end of its persistence, it
\* holds the lock, no other call is under the lock, and the session and the
\* table are what it decided on.
NoInterference ==
    \A th \in ConcThreads :
        threads.of[th].pc = "persist" =>
            /\ lock = Some(th)
            /\ threads.of[th].seen = Some(<<tracker, db>>)
            /\ \A o \in ConcThreads \ {th} :
                  threads.of[o].pc \notin {"locked", "persist"}

\* C11: record_keystroke, check_idle, end_session, current_wpm and peak_wpm,
\* called concurrently, each run as one critical section under the single
\* lock, held across the persistence calls: every concurrent execution is
\* equivalent to the calls made one after another in some order, and no
\* thread observes or modifies a session between the decision to close it
\* and the completion of its persistence call.
C11_Serializable ==
    /\ NoInterference
    /\ \E f \in CallOrders(Len(hist)) :
          /\ ClockOrdered([i \in 1..Len(hist) |-> hist[f[i]]])
          /\ ExplainedBy(f)

\* The tracker and the table are those of the completed calls made one after
\* another in the order they took the lock, each with the clock reading it
\* made before it waited for the lock.
SerialInLockOrder == ExplainedBy([i \in 1..Len(hist) |-> i])

\* Sessions the tracker keeps when its calls are made one after another: the
\* window's times do not decrease and end at last_keystroke.
WindowInOrder ==
    tracker.current_session # None =>
        LET kt == Active.keystroke_times
        IN  /\ \A i \in 1..Len(kt), j \in 1..Len(kt) : i < j => kt[i][1] <= kt[j][1]
            /\ kt[Len(kt)][1] = Active.last_keystroke

(***************************************************************************)
(* Buckets of the KeystrokeAggregator.                                     *)
(***************************************************************************)
\* Every in-flight record was created in the current bucket.
RecordsInCurrentBucket ==
    \A k \in DOMAIN agg.records :
        MinuteOf(agg.records[k].timestamp) = agg.current_minute

\* This step is a call of process().
IsProcess == acall'.op = "process" /\ obs'.calls = obs.calls + 1

\* This step is a process call whose event falls in another bucket than the
\* event of the call before it.
IsBucketChange ==
    /\ IsProcess
    /\ acall.op = "process"
    /\ MinuteOf(acall'.ev.timestamp) # MinuteOf(acall.ev.timestamp)

\* This step is the first call made on the aggregator, a process call.
IsFirstEvent == IsProcess /\ obs.calls = 0

\* C21: for any sequence of event timestamps, after every process call all
\* in-flight records were created in the current bucket; every change of
\* bucket between consecutive events drains the records of the previous
\* bucket; the very first event never drains anything; no record accumulates
\* events from two different minutes.
C21_RecordsOfOneBucket ==
    /\ [](RecordsInCurrentBucket)
    /\ [][/\ IsBucketChange => ret' = agg.records
          /\ IsFirstEvent => ret' = EmptyMap]_vars

\* The same as long as no event fell in the epoch's first minute.
RecordsOfOneBucketAfterMinuteZero ==
    /\ [](0 \notin obs.minutes => RecordsInCurrentBucket)
    /\ [][/\ (IsBucketChange /\ 0 \notin obs.minutes) => ret' = agg.records
          /\ IsFirstEvent => ret' = EmptyMap]_vars

\* A record stamped in the epoch's first minute is in flight in a later
\* bucket, holding events of both minutes.
RecordSpansTwoMinutes ==
    \E k \in DOMAIN agg.records :
        /\ MinuteOf(agg.records[k].timestamp) = 0
        /\ agg.current_minute = 1
        /\ agg.records[k].char_count = 2

(***************************************************************************)
(* The daemon's view of the application in front.                          *)
(***************************************************************************)
\* This step is a key press handled by process_key.
IsDaemonKey == dobs'.keys = dobs.keys + 1

\* C22: process_key calls the active-application resolver at most once in
\* any 2-second span of whole-second timestamps and reuses the cached answer
\* for every key in between; a failed resolution caches "no application", so
\* keys are attributed to the "unknown" record key until a later poll
\* succeeds: every counted key goes to the record key of the latest answer.
C22_ResolverThrottled ==
    [][IsDaemonKey =>
          /\ dobs'.last.polled =>
                \/ dobs.resolved = None
                \/ denv'.now - Unwrap(dobs.resolved).at >= 2
          /\ ~dobs'.last.polled =>
                /\ dobs'.resolved = dobs.resolved
                /\ daemon'.tracker.cached_app = daemon.tracker.cached_app
          /\ daemon'.tracker.cached_app = Unwrap(dobs'.resolved).answer
          /\ dobs'.last.app_id # None =>
                /\ Unwrap(dobs'.last.app_id) = AppKey(Unwrap(dobs'.resolved).answer)
                /\ Unwrap(dobs'.last.app_id) \in DOMAIN daemon'.tracker.records]_vars

\* A resolution failed at second 120; the keys of seconds 120 and 121 went to
\* "unknown"; the key of second 122 polled again and went to the application
\* found.
C22_Witness ==
    /\ dobs.keys = 3
    /\ denv.now = 122
    /\ dobs.last.polled
    /\ dobs.resolved = Some([at |-> 122, answer |-> Some([name |-> "Alpha",
                                                          bundle_id |-> "com.alpha"])])
    /\ DOMAIN daemon.tracker.records = {"unknown", "com.alpha"}
    /\ daemon.tracker.records["unknown"].char_count = 2
    /\ daemon.tracker.records["com.alpha"].char_count = 1

\* The browser_domain and browser_url of a record.
BrowserFields(r) == <<r.browser_domain, r.browser_url>>

\* The context get_browser_context last returned for application key k while
\* its record has been in flight.
LatestSeen(k) ==
    IF k \in DOMAIN dobs.seen
    THEN <<Some(dobs.seen[k].domain), Some(dobs.seen[k].url)>>
    ELSE <<None, None>>

\* C23: browser fields are latest-wins: whenever the active application is a
\* recognized browser, after the key is processed the in-flight record's
\* browser_domain and browser_url are those of the most recently observed
\* browser context for that browser, whatever the record held before.
C23_BrowserLatestWins ==
    \A k \in DOMAIN daemon.tracker.records :
        is_browser(k) => BrowserFields(daemon.tracker.records[k]) = LatestSeen(k)

\* A key in the browser found page b.example when the record in flight held
\* a.example from an earlier key, and the record now holds b.example.
C23_Witness ==
    /\ dobs.last.app_id = Some("com.google.Chrome")
    /\ dobs.last.had # None
    /\ Unwrap(dobs.last.had).domain = "a.example"
    /\ dobs.seen["com.google.Chrome"].domain = "b.example"
    /\ daemon.tracker.records["com.google.Chrome"].char_count = 2
    /\ BrowserFields(daemon.tracker.records["com.google.Chrome"])
           = <<Some("b.example"), Some("https://b.example/y")>>

(***************************************************************************)
(* The rolling window, the counts and the peak of the open session.        *)
(***************************************************************************)
\* This step is a keystroke recorded on the open session within its idle
\* window.
IsKeystrokeWithinIdle ==
    /\ IsCall("record_keystroke")
    /\ tracker.current_session # None
    /\ now' - Active.last_keystroke <= tracker.idle_timeout

\* The window of the open session holds keystrokes of that session only:
\* none is older than the session or than 60 s before the last keystroke,
\* the last entry is the last keystroke, and together they carry no more
\* characters than the session has counted.
WindowOfOpenSession ==
    tracker.current_session # None =>
        LET kt == Active.keystroke_times
        IN  /\ Len(kt) >= 1
            /\ kt[Len(kt)][1] = Active.last_keystroke
            /\ \A i \in 1..Len(kt) :
                   /\ kt[i][1] >= Active.session.start_time
                   /\ kt[i][1] > Active.last_keystroke - Seconds(WindowSecs)
            /\ SumChars(kt) <= Active.session.char_count

\* C24: after every record_keystroke on an open session within the idle
\* window, every entry of the rolling window has a timestamp strictly later
\* than now - 60 s, the entry (now, char_count) of the current keystroke is
\* the last entry, and all entries belong to the currently open session (the
\* entries before the last are those of the window before the call that are
\* not evicted, in their order).
C24_WindowEviction ==
    /\ [](WindowOfOpenSession)
    /\ [][IsKeystrokeWithinIdle =>
             LET kt == Unwrap(tracker'.current_session).keystroke_times
             IN  /\ tracker'.current_session # None
                 /\ Unwrap(tracker'.current_session).session.id = Active.session.id
                 /\ kt[Len(kt)] = <<now', scall'.args[1]>>
                 /\ \A i \in 1..Len(kt) : kt[i][1] > now' - Seconds(WindowSecs)
                 /\ SubSeq(kt, 1, Len(kt) - 1) =
                        SelectSeq(Active.keystroke_times,
                                  LAMBDA e : now' - e[1] < Seconds(WindowSecs))]_vars

\* A keystroke exactly 60 s after the session's first has evicted that one,
\* and the keystroke a tick later has kept the second.
C24_Witness ==
    /\ KeystrokeWithinWindow
    /\ Active.session.start_time = 0
    /\ now = Seconds(WindowSecs) + 1
    /\ Len(Active.keystroke_times) = 2
    /\ Active.keystroke_times[1][1] = Seconds(WindowSecs)
    /\ Active.keystroke_times[2][1] = Seconds(WindowSecs) + 1
    /\ SumChars(Active.keystroke_times) < Active.session.char_count

\* This step is a call that reads or polls the open session and leaves it
\* open: check_idle within the idle window, current_wpm() or peak_wpm().
IsQuietCall ==
    /\ tracker.current_session # None
    /\ \/ IsCall("check_idle") /\ tracker'.current_session # None
       \/ IsCall("current_wpm")
       \/ IsCall("peak_wpm")

\* The open session's counts are those of the account.
CountsSinceOpen ==
    tracker.current_session # None =>
        /\ Active.session.char_count = scall.since.chars
        /\ Active.session.word_count = scall.since.words

\* C25: while a session stays open, its char_count and word_count are the
\* sums of the char and word deltas of all keystrokes recorded since, and
\* including, the one that opened it; check_idle calls that do not close the
\* session and current_wpm/peak_wpm reads leave the session's counts, window
\* and last-keystroke time unchanged.
C25_CountsAreSums ==
    /\ [](CountsSinceOpen)
    /\ [][IsQuietCall => tracker' = tracker]_vars

\* Three keystrokes make a session of 9 characters and 2 words, and a
\* check_idle within the idle window has just left it open.
C25_Witness ==
    /\ scall.op = "check_idle" /\ scall.n = 4
    /\ tracker.current_session # None
    /\ now > Active.last_keystroke
    /\ Len(Active.keystroke_times) = 3
    /\ Active.session.char_count = 9
    /\ Active.session.word_count = 2

\* x >= y for WPM values.
AtLeast(x, y) == ~Greater(y, x)

\* For an open session peak_wpm >= current_wpm >= 0.
PeakAboveCurrent ==
    tracker.current_session # None =>
        /\ AtLeast(Active.peak_wpm, Active.current_wpm)
        /\ AtLeast(Active.current_wpm, Zero)

\* This step leaves the same session open.
StaysOpen ==
    /\ tracker.current_session # None
    /\ tracker'.current_session # None
    /\ Unwrap(tracker'.current_session).session.id = Active.session.id

\* This step is a read of current_wpm() or peak_wpm() with no session open.
IsReadWhileIdle ==
    /\ tracker.current_session = None
    /\ IsCall("current_wpm") \/ IsCall("peak_wpm")

\* This step hands a closed session to update_session.
IsClose == scall'.n = scall.n + 1 /\ scall'.upd # None

\* C26: for an open session peak_wpm >= current_wpm >= 0 after every
\* operation and peak_wpm never decreases during the session; the value
\* persisted as wpm_peak at close is the maximum instantaneous WPM reached in
\* that session; current_wpm() and peak_wpm() return 0 whenever no session
\* is open.
C26_PeakWpm ==
    /\ [](PeakAboveCurrent)
    /\ [][/\ StaysOpen =>
                AtLeast(Unwrap(tracker'.current_session).peak_wpm, Active.peak_wpm)
          /\ IsClose => Unwrap(scall'.upd).wpm_peak = Some(scall.since.exact)
          /\ IsReadWhileIdle => scall'.value = Zero]_vars

\* The same with the maximum taken over the values current_wpm has had.
PeakOfCurrentWpm ==
    /\ [](PeakAboveCurrent)
    /\ [][/\ StaysOpen =>
                AtLeast(Unwrap(tracker'.current_session).peak_wpm, Active.peak_wpm)
          /\ IsClose => Unwrap(scall'.upd).wpm_peak = Some(scall.since.top)
          /\ IsReadWhileIdle => scall'.value = Zero]_vars

(***************************************************************************)
(* The hook threads of one Listener.                                       *)
(***************************************************************************)
\* The hook threads that hand a key press to their callback: they block in
\* the OS hook while the running flag is set.
Delivering ==
    {i \in 1..Len(hooks) : hooks[i].state = "listening" /\ listener.running}

\* C27: across any sequence of start and stop calls on one Listener, at most
\* one hook thread installed by that Listener delivers key events to a
\* callback at any time, including after a stop followed by a new start while
\* the earlier hook thread is still blocked in the OS hook.
C27_OneDeliveringHook == Cardinality(Delivering) <= 1

\* The same until the Listener is started a second time.
OneDeliveringHookUntilRestart == Len(hooks) <= 1 => Cardinality(Delivering) <= 1

\* Each successful start has spawned one hook thread, on a stop channel of
\* its own.
OneHookPerStart ==
    /\ Len(hooks) = Len(chans)
    /\ \A i \in 1..Len(hooks) : hooks[i].chan = i

\* After start, stop, start the hook threads of both starts have delivered a
\* key press while both block in the OS hook.
TwoHooksDeliver ==
    /\ Len(hooks) = 2
    /\ listener.running
    /\ \A i \in 1..2 : hooks[i].state = "listening" /\ hooks[i].delivered = 1

\* This step is the callback of some hook thread being invoked.
IsCallback == \E i \in 1..Len(hooks) : hooks'[i].delivered = hooks[i].delivered + 1

\* This step is a hook thread's check of the running flag for a key press.
IsHookCheck ==
    \E i \in 1..Len(hooks) :
        \/ hooks'[i].dropped = hooks[i].dropped + 1
        \/ hooks'[i].checked /\ ~hooks[i].checked

\* stop() has returned and no start has followed it.
Stopped == lcall.op \in {"stop", "drop"}

\* C28: once stop() has returned, the callback is not invoked for any key
\* event until a later successful start, under every interleaving of the
\* hook thread and the thread calling stop.
C28_NoCallbackAfterStop == [][IsCallback => ~Stopped]_vars

\* A key press whose check of the running flag comes after stop() has
\* returned is dropped.
CheckedAfterStopIsDropped ==
    [][(IsHookCheck /\ Stopped) =>
          \A i \in 1..Len(hooks) : hooks'[i].checked = hooks[i].checked]_vars

\* A hook thread is past its check of the running flag, about to call the
\* callback, when stop() has returned.
CallbackPendingAfterStop ==
    /\ Stopped
    /\ ~listener.running
    /\ \E i \in 1..Len(hooks) : hooks[i].checked

(***************************************************************************)
(* Conservation of events in the KeystrokeAggregator.                      *)
(***************************************************************************)
\* The records returned so far and those in flight together count every
\* event processed, once.
EventsConserved ==
    AddCounts(obs.returned, RecordTotals(agg.records)) = obs.events

\* After process calls followed by one flush the returned records count
\* every event.
FlushReturnsAll ==
    (acall.op = "flush" /\ obs.flushes = 1) => obs.returned = obs.events

\* The event of this process call is counted only in a record of its own
\* minute, made for it: the records returned are those in flight before.
CountedInNewMinuteOnly ==
    LET e == acall'.ev
        k == AppKey(e.app)
    IN  /\ RecordTotals(ret') = RecordTotals(agg.records)
        /\ k \in DOMAIN agg'.records
        /\ MinuteOf(agg'.records[k].timestamp) = MinuteOf(e.timestamp)
        /\ RecordTotals(agg'.records) = EventTally(e.event_type)

\* C29: KeystrokeAggregator neither loses nor double-counts events: for any
\* sequence of process calls followed by one flush, summed over all records
\* returned by those calls, char_count is the number of Character, Space,
\* Tab and Enter events processed, backspace_count the number of Backspace
\* events and paragraph_count the number of Enter events; the event that
\* triggers a rollover is counted only in the new minute's record.
C29_EventsConserved ==
    /\ [](EventsConserved /\ FlushReturnsAll)
    /\ [][IsBucketChange => CountedInNewMinuteOnly]_vars

\* The same, the rollovers being those out of any minute but the epoch's
\* first.
EventsConservedAfterMinuteZero ==
    /\ [](EventsConserved /\ FlushReturnsAll)
    /\ [][(IsBucketChange /\ 0 \notin obs.minutes) => CountedInNewMinuteOnly]_vars

\* Three events of two minutes and two applications, one of each kind
\* counted, have all been returned by a rollover and the flush.
AllReturnedAfterRollover ==
    /\ acall.op = "flush" /\ obs.flushes = 1 /\ obs.calls = 4
    /\ Cardinality(obs.minutes) = 2 /\ Cardinality(obs.apps) = 2
    /\ obs.events = [chars |-> 2, paragraphs |-> 1, backspaces |-> 1]
    /\ obs.returned = obs.events

(***************************************************************************)
(* The SessionTracker when persistence fails.                              *)
(***************************************************************************)
\* This step is a call made with a session open.
IsCallOnOpen == scall'.n = scall.n + 1 /\ tracker.current_session # None

\* After this step the session that was open is no longer the tracker's: the
\* tracker is empty or holds another session.
SessionLeaves ==
    \/ tracker'.current_session = None
    \/ Unwrap(tracker'.current_session).session.id # Active.session.id

\* What C30 says of a call made with a session open.
KeptUntilPersisted ==
    /\ scall'.result = "Err" => tracker' = tracker
    /\ SessionLeaves => /\ scall'.upd # None
                        /\ Unwrap(scall'.upd).id = Active.session.id
                        /\ ClosedRowOf(db', Active)

\* C30: a session leaves the SessionTracker's memory (is cleared, or replaced
\* by a new session) only after its close has been persisted successfully:
\* if a persistence call fails during record_keystroke, check_idle or
\* end_session, the call returns the error and the open session remains in
\* the tracker unchanged, so it can still be closed by a later call.
C30_KeptUntilPersisted == [][IsCallOnOpen => KeptUntilPersisted]_vars

\* The same for record_keystroke and check_idle.
KeptUntilPersistedByIdlePaths ==
    [][(IsCallOnOpen /\ ~IsCall("end_session")) => KeptUntilPersisted]_vars

\* end_session whose update_session fails returns the error, empties the
\* tracker and leaves the session's row as it was.
EndSessionDropsOnError ==
    [][(IsCallOnOpen /\ IsCall("end_session") /\ scall'.result = "Err") =>
          /\ tracker'.current_session = None
          /\ db' = db]_vars

\* After a failed end_session a keystroke has opened a second session while
\* the row of the first is still open.
TwoOpenRows ==
    /\ tracker.current_session # None
    /\ Cardinality(OpenRows(db)) = 2

====
